---- MODULE Spec2Model ----
(***************************************************************************)
(* Content-and-contact backend: the session authority (login, resolve,     *)
(* logout), the content catalog (create, read, list, update, delete) and   *)
(* the pagination helpers, modelled from the Python sources.               *)
(*                                                                         *)
(* The document store is the shared state.  Every request handler is a     *)
(* sequence of store calls; each call is one atomic step and concurrent    *)
(* requests interleave between the calls (every await is a scheduling      *)
(* point).  Documents are dictionaries: functions from field names to      *)
(* values, with a field being absent when it is not in the domain.         *)
(***************************************************************************)
EXTENDS Integers, Sequences, FiniteSets, Bags, TLC

VARIABLES
    users,      \* the users collection: _id -> document
    nextToken,  \* how many tokens secrets.token_urlsafe has produced so far
    contents,   \* the contents collection: ObjectId -> document
    nextOid,    \* how many ObjectIds the store has assigned so far
    now,        \* the server clock read by datetime.utcnow()
    inflight,   \* the requests being served: a bag of [pc, req, loc], the
                \* handler's position, its request and its local variables
    resp,       \* the response sent last, with the request it answers
    pageIn,     \* pure helpers: the arguments they are applied to
    pageOut,    \* pure helpers: what they returned for them
    contacts,   \* the contacts collection: ObjectId -> document
    storeDown,  \* whether a store call made now fails (connectivity, timeout)
    client,     \* database._client: None, or the client, connected or closed
    database,   \* database._database: None, or the database handle
    lifespan    \* the position of main.lifespan, from startup to shutdown

vars == <<users, nextToken, contents, nextOid, now, inflight, resp, pageIn, pageOut,
         contacts, storeDown, client, database, lifespan>>

(***************************************************************************)
(* Bounds of the model.                                                    *)
(***************************************************************************)
MaxInFlight == 2
MaxTokens == 2

(***************************************************************************)
(* Dictionaries.                                                           *)
(***************************************************************************)
\* The empty dictionary {}; a lookup that finds nothing (Python None) is
\* modelled by it too: both are falsy, and every stored document has an _id.
EmptyDict == <<>>
NoDoc == EmptyDict

\* The JSON null / Python None of an optional text field
None == "<None>"

\* dict.get(key, default)
Get(d, k, default) == IF k \in DOMAIN d THEN d[k] ELSE default

\* {"$set": upd} applied to a document: merge the given fields, keep the others
ApplySet(doc, upd) == upd @@ doc

\* {"$unset": {k: ""}} applied to a document: the field is removed
ApplyUnset(doc, k) == [f \in (DOMAIN doc) \ {k} |-> doc[f]]

\* An equality filter {k: v, ...}: every named field is present and equal
MatchesEq(doc, query) ==
    \A k \in DOMAIN query : k \in DOMAIN doc /\ doc[k] = query[k]

\* collection.find_one(query): the _ids of the documents it may return
FindOne(coll, query) == {i \in DOMAIN coll : MatchesEq(coll[i], query)}

(***************************************************************************)
(* Session authority  (app/api/auth.py)                                    *)
(***************************************************************************)
\* hashlib.sha256(password.encode()).hexdigest(): a one-way, injective digest
hash_password(password) == <<"sha256", password>>

\* secrets.token_urlsafe(32): the n-th draw; draws are pairwise distinct
token_urlsafe(n) == <<"tok", n>>

Emails == {"admin@tax.in", "user@tax.in", "nobody@tax.in"}
Passwords == {"admin-pass", "user-pass"}

\* The users collection as the admin scripts and the store leave it: an
\* administrator (is_admin set) and a plain user (no is_admin field).
InitUsers ==
    (1 :> [_id |-> 1, email |-> "admin@tax.in", name |-> "Administrator",
           password |-> hash_password("admin-pass"), is_admin |-> TRUE])
    @@
    (2 :> [_id |-> 2, email |-> "user@tax.in", name |-> "Reader",
           password |-> hash_password("user-pass")])

\* The Authorization header values a client may send
NoHeader == EmptyDict
Bearer(tok) == [scheme |-> "Bearer ", credentials |-> tok]
BasicHeader == [scheme |-> "Basic ", credentials |-> "dXNlcjpwdw"]
BogusToken == <<"tok", 0>>
Headers(n) ==
    {NoHeader, BasicHeader, Bearer(BogusToken)} \cup {Bearer(token_urlsafe(i)) : i \in 1..n}

Unauthorized(detail) == [status |-> 401, detail |-> detail]
Forbidden(detail) == [status |-> 403, detail |-> detail]

\* get_current_user: the dependency that resolves a bearer token to a user.
\* Returns the set of outcomes: a 401 response, or [status |-> 200, user |-> doc].
get_current_user(coll, authorization) ==
    IF authorization = NoHeader \/ authorization.scheme # "Bearer "
    THEN {Unauthorized("Missing or invalid authorization header")}
    ELSE LET token == authorization.credentials
             found == FindOne(coll, [token |-> token])
         IN  IF found = {}
             THEN {Unauthorized("Invalid authentication token")}
             ELSE {[status |-> 200, user |-> coll[i]] : i \in found}

\* As LoginCheck, but an unknown email is reported as such
LoginCheckTellsUnknown(user, password) ==
    IF user = NoDoc
    THEN [status |-> 404, detail |-> "User not found"]
    ELSE IF Get(user, "password", <<>>) # hash_password(password)
         THEN Unauthorized("Invalid email or password")
         ELSE EmptyDict

\* login, up to the credential check: the failure raised, or {} to go on
LoginCheck(user, password) ==
    IF user = NoDoc
    THEN Unauthorized("Invalid email or password")
    ELSE IF Get(user, "password", <<>>) # hash_password(password)
         THEN Unauthorized("Invalid email or password")
         ELSE EmptyDict

\* The public view of a user returned by login and /me
UserView(user) ==
    [id |-> ToString(user["_id"]), email |-> user["email"],
     name |-> Get(user, "name", ""), is_admin |-> Get(user, "is_admin", FALSE)]

\* As LoginUpdate, but a token already stored is kept
LoginUpdateKeepsToken(doc, token, t) ==
    IF "token" \in DOMAIN doc
    THEN ApplySet(doc, [last_login |-> t])
    ELSE ApplySet(doc, [token |-> token, last_login |-> t])

\* The write login makes: {"$set": {"token": token, "last_login": utcnow()}}
LoginUpdate(doc, token, t) == ApplySet(doc, [token |-> token, last_login |-> t])

\* As LogoutUpdate, but the field unset is not the token
LogoutUpdateWrongField(doc) == ApplyUnset(doc, "last_login")

\* The write logout makes: {"$unset": {"token": ""}}
LogoutUpdate(doc) == ApplyUnset(doc, "token")

\* update_one({"_id": id}, ...): the matched document, if any, becomes newdoc
UpdateOne(coll, id, newdoc) ==
    [i \in DOMAIN coll |-> IF i = id THEN newdoc ELSE coll[i]]

\* The handlers suspended at a store call
InFlight == BagToSet(inflight)

\* The state main.lifespan leaves at its yield: init_db has connected the
\* client and set the database handle, and requests are served
Serving ==
    /\ client = "connected"
    /\ database = "AsyncIOMotorDatabase"
    /\ lifespan = "serving"

\* A request is accepted once the startup has completed and until the
\* shutdown begins, while fewer than MaxInFlight are being served
Accepting == lifespan = "serving" /\ BagCardinality(inflight) < MaxInFlight

Handler(at, request, locals) == [pc |-> at, req |-> request, loc |-> locals]

\* A request arrives and its handler suspends at a store call, to resume at `at`
Await(at, request, locals) ==
    /\ inflight' = inflight (+) SetToBag({Handler(at, request, locals)})
    /\ UNCHANGED resp

\* A request arrives and is answered without suspending again
Answer(request, response) ==
    /\ resp' = [request |-> request, response |-> response]
    /\ UNCHANGED inflight

\* The suspended handler h resumes and suspends at the next store call
Continue(h, at, locals) ==
    /\ inflight' = (inflight (-) SetToBag({h})) (+) SetToBag({Handler(at, h.req, locals)})
    /\ UNCHANGED resp

\* The suspended handler h resumes and returns
Respond(h, response) ==
    /\ inflight' = inflight (-) SetToBag({h})
    /\ resp' = [request |-> h.req, response |-> response]

\* As LoginFind, but a failed attempt on a registered email ends the session
\* of its user
LoginFindEndsSession ==
    /\ Accepting
    /\ \E email \in Emails, password \in Passwords :
         LET found == FindOne(users, [email |-> email])
             request == [op |-> "login", email |-> email, password |-> password]
         IN  \E user \in (IF found = {} THEN {NoDoc} ELSE {users[u] : u \in found}) :
               LET failure == LoginCheck(user, password)
               IN  IF failure # EmptyDict
                   THEN /\ Answer(request, failure)
                        /\ users' = IF user = NoDoc THEN users
                                     ELSE UpdateOne(users, user["_id"],
                                                    LogoutUpdate(users[user["_id"]]))
                        /\ UNCHANGED nextToken
                   ELSE /\ nextToken < MaxTokens
                        /\ Await("login_write", request,
                                 [user |-> user, token |-> token_urlsafe(nextToken + 1),
                                  last_login |-> now])
                        /\ nextToken' = nextToken + 1
                        /\ UNCHANGED users
    /\ UNCHANGED <<contents, nextOid, now, pageIn, pageOut, contacts, storeDown, client,
                 database, lifespan>>

\* POST /login: find the user, check the digest, draw a token
LoginFind ==
    /\ Accepting
    /\ \E email \in Emails, password \in Passwords :
         LET found == FindOne(users, [email |-> email])
             request == [op |-> "login", email |-> email, password |-> password]
         IN  \E user \in (IF found = {} THEN {NoDoc} ELSE {users[u] : u \in found}) :
               LET failure == LoginCheck(user, password)
               IN  IF failure # EmptyDict
                   THEN /\ Answer(request, failure)
                        /\ UNCHANGED nextToken
                   ELSE /\ nextToken < MaxTokens
                        /\ Await("login_write", request,
                                 [user |-> user, token |-> token_urlsafe(nextToken + 1),
                                  last_login |-> now])
                        /\ nextToken' = nextToken + 1
    /\ UNCHANGED <<users, contents, nextOid, now, pageIn, pageOut, contacts, storeDown, client, database, lifespan>>

\* POST /login: store the token in the user document and answer
LoginWrite ==
    \E h \in InFlight :
        /\ h.pc = "login_write"
        /\ LET id == h.loc.user["_id"]
           IN  users' = UpdateOne(users, id,
                                  LoginUpdate(users[id], h.loc.token, h.loc.last_login))
        /\ Respond(h, [status |-> 200, access_token |-> h.loc.token,
                       token_type |-> "bearer", user |-> UserView(h.loc.user)])
        /\ UNCHANGED <<nextToken, contents, nextOid, now, pageIn, pageOut, contacts, storeDown, client, database, lifespan>>

\* GET /me: resolve the bearer token and return the user's public view
Me ==
    /\ Accepting
    /\ \E authorization \in Headers(nextToken) :
         \E r \in get_current_user(users, authorization) :
           Answer([op |-> "me", authorization |-> authorization],
                  IF r.status = 200
                  THEN [status |-> 200, user |-> UserView(r.user)]
                  ELSE r)
    /\ UNCHANGED <<users, nextToken, contents, nextOid, now, pageIn, pageOut, contacts, storeDown, client, database, lifespan>>

\* POST /logout: the get_current_user dependency
LogoutAuth ==
    /\ Accepting
    /\ \E authorization \in Headers(nextToken) :
         \E r \in get_current_user(users, authorization) :
           LET request == [op |-> "logout", authorization |-> authorization]
           IN  IF r.status = 200
               THEN Await("logout_write", request, [current_user |-> r.user])
               ELSE Answer(request, r)
    /\ UNCHANGED <<users, nextToken, contents, nextOid, now, pageIn, pageOut, contacts, storeDown, client, database, lifespan>>

\* POST /logout: unset the token of the resolved user and answer
LogoutWrite ==
    \E h \in InFlight :
        /\ h.pc = "logout_write"
        /\ LET id == h.loc.current_user["_id"]
           IN  users' = UpdateOne(users, id, LogoutUpdate(users[id]))
        /\ Respond(h, [status |-> 200, message |-> "Logged out successfully"])
        /\ UNCHANGED <<nextToken, contents, nextOid, now, pageIn, pageOut, contacts, storeDown, client, database, lifespan>>

InitRequests ==
    /\ inflight = EmptyBag
    /\ resp = EmptyDict

InitAuth ==
    /\ users = InitUsers
    /\ nextToken = 0
    /\ contents = EmptyDict
    /\ nextOid = 0
    /\ now = 0
    /\ pageIn = EmptyDict
    /\ pageOut = EmptyDict
    /\ contacts = EmptyDict
    /\ storeDown = FALSE
    /\ Serving
    /\ InitRequests

NextAuth ==
    \/ LoginFind
    \/ LoginWrite
    \/ Me
    \/ LogoutAuth
    \/ LogoutWrite

SpecAuth == InitAuth /\ [][NextAuth]_vars

(***************************************************************************)
(* Properties of the session authority                                     *)
(***************************************************************************)
\* The step is the return of the suspended handler h
Returned(h) == inflight' = inflight (-) SetToBag({h})

\* The step resumes the suspended handler h, which suspends again at `at`
Resumed(h, at) ==
    \E g \in BagToSet(inflight') :
        /\ g.pc = at
        /\ g.req = h.req
        /\ inflight' = (inflight (-) SetToBag({h})) (+) SetToBag({g})

LastIs(op, status) ==
    /\ resp # EmptyDict
    /\ resp.request.op = op
    /\ resp.response.status = status

\* The token drawn n-th resolves to the user with _id u in collection coll
ResolvesTo(coll, n, u) ==
    \E r \in get_current_user(coll, Bearer(token_urlsafe(n))) :
        r.status = 200 /\ r.user["_id"] = u

Resolves(coll, n) == \E u \in DOMAIN coll : ResolvesTo(coll, n, u)

\* The token drawn n-th is held by a login that has not written it yet
Pending(n) ==
    \E h \in InFlight : h.pc = "login_write" /\ h.loc.token = token_urlsafe(n)

\* While a login's answer is the last one sent, its token resolves to its user
LastLoginResolves ==
    LastIs("login", 200) =>
        LET outcomes == get_current_user(users, Bearer(resp.response.access_token))
        IN  \A r \in outcomes :
              /\ r.status = 200
              /\ UserView(r.user) = resp.response.user
              /\ r.user["email"] = resp.request.email

\* While a logout's answer is the last one sent, its token is refused with 401
LastLogoutRevoked ==
    LastIs("logout", 200) =>
        \A r \in get_current_user(users, resp.request.authorization) :
            r = Unauthorized("Invalid authentication token")

\* A token that was written and resolves no more never resolves again
RevokedStaysRevoked ==
    \A n \in 1..nextToken :
        (~Pending(n) /\ ~Resolves(users, n)) => ~Resolves(users', n)

\* C1: a resolve right after a successful login yields the user that logged
\* in; after the logout of that session a resolve of the same token fails
\* with 401 (Unauthenticated), then and ever after.
C1_LoginResolveLogout ==
    /\ [](LastLoginResolves /\ LastLogoutRevoked)
    /\ [][RevokedStaysRevoked]_vars

\* A logout has just answered for a token some login issued: it resolves no more
C1_Witness ==
    /\ LastIs("logout", 200)
    /\ \E n \in 1..nextToken :
         /\ resp.request.authorization = Bearer(token_urlsafe(n))
         /\ ~Resolves(users, n)

\* For every user at most one of the tokens drawn so far resolves to it
AtMostOneLiveToken ==
    \A u \in DOMAIN users :
        Cardinality({n \in 0..nextToken : ResolvesTo(users, n, u)}) <= 1

\* The write of a login leaves its own token as the only one of its user
LoginInvalidatesPrior ==
    \A h \in InFlight :
        (h.pc = "login_write" /\ Returned(h)) =>
            LET u == h.loc.user["_id"]
                t == h.loc.token
            IN  \A n \in 0..nextToken :
                  ResolvesTo(users', n, u) <=> (token_urlsafe(n) = t)

\* C2: under every interleaving of logins and logouts at most one token
\* resolves to a user; a login's write invalidates every token issued to that
\* user before, so that of two racing logins only the last writer's resolves.
C2_OneLiveTokenPerUser ==
    /\ []AtMostOneLiveToken
    /\ [][LoginInvalidatesPrior]_vars

\* Two logins of one user raced and both completed: the second token drawn
\* was written first, the first token drawn was written last and is the one
\* stored (the other user never logged in, so both draws were this user's).
C2_Witness ==
    /\ LastIs("login", 200)
    /\ resp.response.access_token = token_urlsafe(1)
    /\ nextToken = 2
    /\ inflight = EmptyBag
    /\ \E u, v \in DOMAIN users :
         /\ u # v
         /\ Get(users[u], "token", <<>>) = token_urlsafe(1)
         /\ "last_login" \notin DOMAIN users[v]
         /\ ResolvesTo(users, 1, u)
         /\ ~Resolves(users, 2)

Registered(email) == FindOne(users, [email |-> email]) # {}

\* C5: a login with a registered email and a wrong password and a login with
\* an unregistered email fail with the same response: status 401 and the same
\* detail text.
C5_UniformLoginFailure ==
    /\ \A e \in Emails, pw1 \in Passwords, pw2 \in Passwords :
         \A u \in FindOne(users, [email |-> e]) :
            users[u]["password"] # hash_password(pw1) =>
                /\ LoginCheck(users[u], pw1) = LoginCheck(NoDoc, pw2)
                /\ LoginCheck(users[u], pw1).status = 401
    /\ (resp # EmptyDict /\ resp.request.op = "login" /\ resp.response.status # 200) =>
         resp.response = [status |-> 401, detail |-> "Invalid email or password"]

\* Both failures have been answered: the last one for a registered email with
\* a wrong password
C5_Witness ==
    /\ LastIs("login", 401)
    /\ Registered(resp.request.email)
    /\ \E u \in FindOne(users, [email |-> resp.request.email]) :
         users[u]["password"] # hash_password(resp.request.password)

(***************************************************************************)
(* Pagination helpers  (app/utils/helpers.py)                              *)
(***************************************************************************)
MaxTotal == 6
MaxSkip == 6

max(a, b) == IF a >= b THEN a ELSE b
min(a, b) == IF a <= b THEN a ELSE b

\* As paginate_query, but the limit is not clamped from below
paginate_query_no_floor(skip, limit) == <<max(0, skip), min(limit, 100)>>

\* paginate_query(skip, limit) -> (skip, limit)
paginate_query(skip, limit) == <<max(0, skip), max(1, min(limit, 100))>>

\* As calculate_page_info, but the page count rounds down
calculate_page_info_floor(total, skip, limit) ==
    [page |-> IF limit > 0 THEN (skip \div limit) + 1 ELSE 1,
     page_size |-> limit,
     total |-> total,
     total_pages |-> IF limit > 0 THEN total \div limit ELSE 1]

\* calculate_page_info(total, skip, limit) -> {page, page_size, total, total_pages}
calculate_page_info(total, skip, limit) ==
    [page |-> IF limit > 0 THEN (skip \div limit) + 1 ELSE 1,
     page_size |-> limit,
     total |-> total,
     total_pages |-> IF limit > 0 THEN (total + limit - 1) \div limit ELSE 1]

\* As create_list_response, but total and skip change places in the call
create_list_response_swapped(items, total, skip, limit) ==
    [items |-> items] @@ calculate_page_info(skip, total, limit)

\* create_list_response(items, total, skip, limit): {**page_info, "items": items}
create_list_response(items, total, skip, limit) ==
    [items |-> items] @@ calculate_page_info(total, skip, limit)

\* The arguments the helpers are applied to
TotalInputs == 0..MaxTotal
SkipInputs == (-5)..MaxSkip
LimitInputs == ((-2)..102) \cup {500}

InitPage ==
    /\ pageIn \in [total : TotalInputs, skip : SkipInputs, limit : LimitInputs]
    /\ pageOut = EmptyDict
    /\ contacts = EmptyDict
    /\ storeDown = FALSE
    /\ Serving
    /\ users = InitUsers
    /\ nextToken = 0
    /\ contents = EmptyDict
    /\ nextOid = 0
    /\ now = 0
    /\ InitRequests

Paginate ==
    /\ pageOut' = [op |-> "paginate_query",
                   result |-> paginate_query(pageIn.skip, pageIn.limit)]
    /\ UNCHANGED <<pageIn, users, nextToken, contents, nextOid, now, inflight, resp,
                 contacts, storeDown, client, database, lifespan>>

PageInfo ==
    /\ pageOut' = [op |-> "calculate_page_info",
                   result |-> calculate_page_info(pageIn.total, pageIn.skip, pageIn.limit)]
    /\ UNCHANGED <<pageIn, users, nextToken, contents, nextOid, now, inflight, resp,
                 contacts, storeDown, client, database, lifespan>>

ListResponse ==
    /\ pageOut' = [op |-> "create_list_response",
                   result |-> create_list_response(<<>>, pageIn.total, pageIn.skip, pageIn.limit)]
    /\ UNCHANGED <<pageIn, users, nextToken, contents, nextOid, now, inflight, resp,
                 contacts, storeDown, client, database, lifespan>>

NextPage == Paginate \/ PageInfo \/ ListResponse

SpecPage == InitPage /\ [][NextPage]_vars

(***************************************************************************)
(* Properties of the pagination helpers                                    *)
(***************************************************************************)
\* floor(a / b) and ceil(a / b) for a >= 0, b > 0, from their definitions
FloorDiv(a, b) == CHOOSE q \in 0..a : q * b <= a /\ a < (q + 1) * b
CeilDiv(a, b) == CHOOSE q \in 0..a : (q - 1) * b < a /\ a <= q * b

PageInfoApplied == pageOut # EmptyDict /\ pageOut.op = "calculate_page_info"

PageInfoGeneral ==
    PageInfoApplied =>
        LET total == pageIn.total
            skip == pageIn.skip
            limit == pageIn.limit
            r == pageOut.result
        IN  /\ (skip >= 0 /\ limit >= 1 /\ limit <= 100) =>
                 /\ r.page = FloorDiv(skip, limit) + 1
                 /\ r.total_pages = CeilDiv(total, limit)
                 /\ r.page_size = limit
                 /\ r.total = total
                 /\ (total = 0 => r.total_pages = 0)
            /\ limit <= 0 => (r.page = 1 /\ r.total_pages = 1)

\* C6 as stated: for skip >= 0, limit in [1,100], total >= 0 the page is
\* floor(skip/limit)+1 and total_pages is ceil(total/limit), page_size and
\* total are echoed; total = 0 gives page 1 and total_pages 0; limit <= 0
\* gives page 1 and total_pages 1.
C6_PageInfoAsStated ==
    /\ PageInfoGeneral
    /\ PageInfoApplied =>
         ((pageIn.skip >= 0 /\ pageIn.limit >= 1 /\ pageIn.limit <= 100 /\ pageIn.total = 0)
            => (pageOut.result.page = 1 /\ pageOut.result.total_pages = 0))

\* C6, amended: as stated, except that for total = 0 the page is 1 only when
\* skip < limit (it is floor(skip/limit)+1 like for every other total).
C6_PageInfo ==
    /\ PageInfoGeneral
    /\ PageInfoApplied =>
         ((pageIn.skip >= 0 /\ pageIn.limit >= 1 /\ pageIn.limit <= 100 /\ pageIn.total = 0)
            => /\ pageOut.result.total_pages = 0
               /\ (pageIn.skip < pageIn.limit => pageOut.result.page = 1)
               /\ (pageIn.skip >= pageIn.limit => pageOut.result.page > 1))

\* The helper was applied to a total that is no multiple of the limit, past
\* the first page: total_pages rounds up
C6_Witness ==
    /\ PageInfoApplied
    /\ pageIn.total = 5 /\ pageIn.skip = 4 /\ pageIn.limit = 2
    /\ pageOut.result = [page |-> 3, page_size |-> 2, total |-> 5, total_pages |-> 3]

EnvelopeBuilt ==
    /\ pageOut # EmptyDict
    /\ pageOut.op = "create_list_response"
    /\ pageIn.limit >= 1
    /\ pageIn.skip >= 0

PageWithinPages ==
    EnvelopeBuilt =>
        (pageIn.skip < pageIn.total =>
            (1 <= pageOut.result.page /\ pageOut.result.page <= pageOut.result.total_pages))

\* C30 as stated: in an envelope built with limit >= 1, skip < total gives
\* 1 <= page <= total_pages, and page > total_pages holds exactly when
\* skip >= total.
C30_PageBeyondPagesAsStated ==
    /\ PageWithinPages
    /\ EnvelopeBuilt =>
         ((pageOut.result.page > pageOut.result.total_pages) <=> (pageIn.skip >= pageIn.total))

\* C30, amended: in an envelope built with limit >= 1, skip < total gives
\* 1 <= page <= total_pages; page > total_pages implies skip >= total and
\* holds exactly when skip >= total_pages * limit (so for total = 0 always,
\* with page = 1 and total_pages = 0 at skip < limit); for skip between total
\* and the end of the last page, page = total_pages.
C30_PageBeyondPages ==
    /\ PageWithinPages
    /\ EnvelopeBuilt =>
         LET r == pageOut.result
         IN  /\ (r.page > r.total_pages) => (pageIn.skip >= pageIn.total)
             /\ (r.page > r.total_pages) <=> (pageIn.skip >= r.total_pages * pageIn.limit)
             /\ (pageIn.total <= pageIn.skip /\ pageIn.skip < r.total_pages * pageIn.limit)
                    => r.page = r.total_pages
             /\ (pageIn.total = 0 /\ pageIn.skip < pageIn.limit)
                    => (r.page = 1 /\ r.total_pages = 0)

\* An envelope was built for a skip at the total, inside the last page
C30_Witness ==
    /\ EnvelopeBuilt
    /\ pageIn.total = 5 /\ pageIn.skip = 5 /\ pageIn.limit = 2
    /\ pageOut.result.page = 3
    /\ pageOut.result.total_pages = 3

\* C7: paginate_query(skip, limit) = (max(0, skip), min(max(limit, 1), 100)):
\* skip is clamped to >= 0 and limit to [1, 100]; paginate(-5, 500) = (0, 100)
\* and paginate(5, 0) = (5, 1).
C7_PaginateClamps ==
    (pageOut # EmptyDict /\ pageOut.op = "paginate_query") =>
        LET skip == pageIn.skip
            limit == pageIn.limit
            r == pageOut.result
        IN  /\ r[1] = (IF skip < 0 THEN 0 ELSE skip)
            /\ r[2] = (IF limit < 1 THEN 1 ELSE IF limit > 100 THEN 100 ELSE limit)
            /\ r = <<max(0, skip), min(max(limit, 1), 100)>>
            /\ (skip = -5 /\ limit = 500) => r = <<0, 100>>
            /\ (skip = 5 /\ limit = 0) => r = <<5, 1>>

\* paginate_query was applied to (-5, 500) and returned (0, 100)
C7_Witness ==
    /\ pageOut # EmptyDict /\ pageOut.op = "paginate_query"
    /\ pageIn.skip = -5 /\ pageIn.limit = 500
    /\ pageOut.result = <<0, 100>>

(***************************************************************************)
(* Identifier codec and response formatter  (app/utils/helpers.py)         *)
(***************************************************************************)
HexDigits == <<"0", "1", "2", "3", "4", "5", "6", "7", "8", "9", "a", "b", "c", "d", "e", "f">>
UpperHexDigits == <<"0", "1", "2", "3", "4", "5", "6", "7", "8", "9", "A", "B", "C", "D", "E", "F">>
HexChars == {HexDigits[i] : i \in 1..16} \cup {UpperHexDigits[i] : i \in 1..16}

HexValue(c) == CHOOSE d \in 0..15 : HexDigits[d + 1] = c \/ UpperHexDigits[d + 1] = c

RECURSIVE hex(_, _)
hex(n, width) ==
    IF width = 0 THEN "" ELSE hex(n \div 16, width - 1) \o HexDigits[(n % 16) + 1]

\* str(ObjectId): the 12 bytes as 24 lowercase hexadecimal characters
ObjectIdStr(oid) == "0000000000000000" \o hex(oid, 8)

RECURSIVE HexNumber(_)
HexNumber(str) ==
    IF str = "" THEN 0
    ELSE 16 * HexNumber(SubSeq(str, 1, Len(str) - 1))
         + HexValue(SubSeq(str, Len(str), Len(str)))

\* ObjectId(id_str) for a string that is_valid_object_id accepts
ObjectId(id_str) == HexNumber(id_str)

\* What a call gives: the value returned, or the exception raised
Return(value) == [raised |-> "", value |-> value]
Raise(exc) == [raised |-> exc]

\* The classes of the exceptions the identifier constructor raises.  The
\* driver's InvalidId derives from its BSONError, which derives from
\* Exception: it is neither a TypeError nor a ValueError.
Bases(exc) ==
    CASE exc = "InvalidId" -> {"InvalidId", "BSONError", "Exception"}
      [] exc = "TypeError" -> {"TypeError", "Exception"}
      [] exc = "ValueError" -> {"ValueError", "Exception"}

\* except (handled): the clause catches the exception
Catches(handled, exc) == Bases(exc) \cap handled # {}

\* The exception ObjectId(oid) raises for a string or None, "" when it raises
\* none: None makes it generate a new identifier, a string must be 24
\* hexadecimal characters
ObjectIdError(oid) ==
    IF oid = None THEN ""
    ELSE IF Len(oid) = 24 /\ \A i \in 1..Len(oid) : SubSeq(oid, i, i) \in HexChars
         THEN ""
         ELSE "InvalidId"

\* str(InvalidId): the text of the exception ObjectId(oid) raises
InvalidIdMessage(oid) ==
    "'" \o oid \o "' is not a valid ObjectId, it must be a 12-byte input or a 24-character hex string"

\* is_valid_object_id(id_str): True when ObjectId(id_str) raises nothing, False
\* when it raises a TypeError or a ValueError; any other exception propagates
is_valid_object_id(id_str) ==
    LET exc == ObjectIdError(id_str)
    IN  IF exc = "" THEN Return(TRUE)
        ELSE IF Catches({"TypeError", "ValueError"}, exc) THEN Return(FALSE)
        ELSE Raise(exc)

\* convert_to_object_id(id_str): the identifier (a newly generated one for
\* None), None when ObjectId raises a TypeError or a ValueError; any other
\* exception propagates
convert_to_object_id(id_str) ==
    LET exc == ObjectIdError(id_str)
    IN  IF exc = ""
        THEN Return(IF id_str = None THEN nextOid + 1 ELSE ObjectId(id_str))
        ELSE IF Catches({"TypeError", "ValueError"}, exc) THEN Return(None)
        ELSE Raise(exc)

\* As format_content_response, but the identifier keeps its internal name
format_content_response_keeps_id(content) ==
    IF content = NoDoc THEN EmptyDict
    ELSE [f \in DOMAIN content |->
            IF f = "_id" THEN ObjectIdStr(content["_id"]) ELSE content[f]]

\* format_content_response(content): _id is popped and rendered under id
format_content_response(content) ==
    IF content = NoDoc THEN EmptyDict
    ELSE IF "_id" \in DOMAIN content
         THEN [f \in ((DOMAIN content) \ {"_id"}) \cup {"id"} |->
                 IF f = "id" THEN ObjectIdStr(content["_id"]) ELSE content[f]]
         ELSE content

(***************************************************************************)
(* Content schemas  (app/schemas/content.py)                               *)
(***************************************************************************)
Whitespace == {" ", "\t", "\n"}

RECURSIVE lstrip(_)
lstrip(s) ==
    IF s # "" /\ SubSeq(s, 1, 1) \in Whitespace
    THEN lstrip(SubSeq(s, 2, Len(s)))
    ELSE s

RECURSIVE rstrip(_)
rstrip(s) ==
    IF s # "" /\ SubSeq(s, Len(s), Len(s)) \in Whitespace
    THEN rstrip(SubSeq(s, 1, Len(s) - 1))
    ELSE s

\* str.strip()
strip(s) == rstrip(lstrip(s))

ContentType == {"articles", "news", "judiciary", "others"}
ContentCategory == {"income-tax", "gst", "mca", "sebi", "ms-office"}

\* ContentBase.validate_title and ContentBase.validate_body
validate_title(v) == strip(v)
validate_body(v) == strip(v)

\* Optional[str] = Field(None, max_length=n)
OptionalText(v, max_length) == v = None \/ Len(v) <= max_length

\* As ContentCreateValid, but every request body passes the validation
ContentCreateValidAny(body) == TRUE

\* ContentBase: the field constraints and validators of a request body; a
\* body that fails them is answered with 422 and never becomes a model
ContentCreateValid(body) ==
    /\ body.title # None /\ Len(body.title) \in 1..500 /\ strip(body.title) # ""
    /\ body.type \in ContentType
    /\ body.category \in ContentCategory
    /\ body.body # None /\ Len(body.body) >= 10 /\ Len(strip(body.body)) >= 10
    /\ OptionalText(body.summary, 500)
    /\ OptionalText(body.author, 200)

\* ContentUpdate: the field constraints of a request body
ContentUpdateValid(body) ==
    /\ body.title = None \/ Len(body.title) \in 1..500
    /\ body.type \in ContentType \cup {None}
    /\ body.category \in ContentCategory \cup {None}
    /\ body.body = None \/ Len(body.body) >= 10
    /\ OptionalText(body.summary, 500)

\* The response to a request whose body fails the validation of its schema
Unprocessable == [status |-> 422, detail |-> "validation error"]

\* ContentCreate(**body): the validated model; its title and body are stripped
ContentCreate(body) ==
    [title |-> validate_title(body.title), type |-> body.type,
     category |-> body.category, body |-> validate_body(body.body),
     summary |-> body.summary, author |-> body.author, images |-> body.images]

\* ContentUpdate(**body): every field optional, no validator
ContentUpdate(body) ==
    [title |-> body.title, type |-> body.type, category |-> body.category,
     body |-> body.body, summary |-> body.summary]

\* model_dump(exclude_none=True), and {k: v for k, v in d.items() if v is not None}
exclude_none(model) ==
    [f \in {g \in DOMAIN model : model[g] # None} |-> model[f]]

(***************************************************************************)
(* Content catalog  (app/services/content.py, app/api/content.py)          *)
(***************************************************************************)
MaxContents == 1

HttpError(status, detail) == [status |-> status, detail |-> detail]

\* collection.find_one({"_id": oid}): the document, or None
FindById(coll, oid) == IF oid \in DOMAIN coll THEN coll[oid] ELSE NoDoc

\* collection.insert_one(doc): the store assigns the next ObjectId
InsertOne(coll, oid, doc) == (oid :> (("_id" :> oid) @@ doc)) @@ coll

\* collection.delete_one({"_id": oid})
DeleteOne(coll, oid) == [i \in (DOMAIN coll) \ {oid} |-> coll[i]]

\* As UpdateSet, but the document is replaced by the fields given
UpdateSetReplaces(coll, oid, update_data) ==
    IF oid \in DOMAIN coll
    THEN [coll EXCEPT ![oid] = update_data @@ [_id |-> oid]]
    ELSE coll

\* collection.update_one({"_id": oid}, {"$set": update_data})
UpdateSet(coll, oid, update_data) ==
    IF oid \in DOMAIN coll
    THEN [coll EXCEPT ![oid] = ApplySet(coll[oid], update_data)]
    ELSE coll

\* As NeedsWrite, but the write is made for an empty update_data too
NeedsWriteAlways(update_data) == TRUE

\* ContentService.update_content: if update_data
NeedsWrite(update_data) == update_data # EmptyDict

\* As RequireAdmin, but a user without the flag counts as an administrator
RequireAdminDefaultTrue(current_user) == Get(current_user, "is_admin", TRUE)

\* create_content: current_user.get("is_admin", False)
RequireAdmin(current_user) == Get(current_user, "is_admin", FALSE)

\* create_content: the author defaults to the user's name, email or "Admin"
WithAuthor(content_dict, current_user) ==
    IF Get(content_dict, "author", None) \in {None, ""}
    THEN ApplySet(content_dict,
                  [author |-> Get(current_user, "name",
                                  Get(current_user, "email", "Admin"))])
    ELSE content_dict

\* ContentService.create_content: date and created_at are set before the insert
WithMetadata(content_data, t) ==
    LET dated == IF Get(content_data, "date", None) = None
                 THEN ApplySet(content_data, [date |-> t])
                 ELSE content_data
    IN  ApplySet(dated, [created_at |-> t])

\* if not is_valid_object_id(id): raise InvalidObjectIDException, inside the
\* try of a service method: the response the check ends in (400 when the id
\* is reported invalid, 500 when the check itself raises and except Exception
\* wraps it in a DatabaseException), or {} when the method goes on
IdCheck(id, invalid, failed) ==
    LET valid == is_valid_object_id(id)
    IN  IF valid.raised # ""
        THEN HttpError(500, failed \o InvalidIdMessage(id))
        ELSE IF ~valid.value
        THEN HttpError(400, invalid \o id)
        ELSE EmptyDict

\* ContentService.get_content_by_id and the route's mapping of its exceptions
get_content_by_id(coll, id) ==
    IF IdCheck(id, "Invalid content ID format: ", "Failed to fetch content: ") # EmptyDict
    THEN IdCheck(id, "Invalid content ID format: ", "Failed to fetch content: ")
    ELSE LET document == FindById(coll, ObjectId(id))
         IN  IF document = NoDoc
             THEN HttpError(404, "Content not found with ID: " \o id)
             ELSE [status |-> 200, body |-> format_content_response(document)]

\* The request bodies of POST /content/: two well-formed, one of them with an
\* untrimmed title, and one with a type outside the enumeration
Payloads ==
    {[title |-> "Budget Update", type |-> "news", category |-> "gst",
      body |-> "xxxxxxxxxxxxxxx", summary |-> "Short",
      author |-> None, images |-> None],
     [title |-> " GST rates ", type |-> "articles", category |-> "mca",
      body |-> "The new rates.\n", summary |-> None,
      author |-> "Ann", images |-> None],
     [title |-> "Blog", type |-> "blog", category |-> "gst",
      body |-> "xxxxxxxxxxxxxxx", summary |-> None,
      author |-> None, images |-> None]}

\* The request bodies of PUT /content/{id}
Partials ==
    {[title |-> "New", type |-> None, category |-> None,
      body |-> None, summary |-> None],
     [title |-> None, type |-> None, category |-> None,
      body |-> None, summary |-> None],
     [title |-> None, type |-> None, category |-> "vat",
      body |-> None, summary |-> None]}

\* The identifiers a client may send: those issued, one never issued, one malformed
AbsentId == ObjectIdStr(255)
NotAnId == "not-an-id"
IdInputs(n) == {ObjectIdStr(i) : i \in 1..n} \cup {AbsentId, NotAnId}

\* The users collection once both users have logged in
AdminHeader == Bearer(token_urlsafe(1))
ReaderHeader == Bearer(token_urlsafe(2))
SessionUsers ==
    [u \in DOMAIN InitUsers |->
        ApplySet(InitUsers[u], [token |-> token_urlsafe(u), last_login |-> 0])]

\* The inserts the suspended create handlers are about to make
PendingInserts ==
    BagCardinality([h \in {g \in InFlight : g.pc = "create_insert"} |-> inflight[h]])

\* POST /content/: the get_current_user dependency, the admin check, the
\* building of content_data
CreateAuth ==
    /\ Accepting
    /\ \E authorization \in {NoHeader, Bearer(BogusToken), AdminHeader, ReaderHeader},
          body \in Payloads :
         \E r \in get_current_user(users, authorization) :
           LET request == [op |-> "create", authorization |-> authorization,
                           content |-> body]
           IN  IF r.status # 200
               THEN Answer(request, r)
               ELSE IF ~ContentCreateValid(body)
               THEN Answer(request, Unprocessable)
               ELSE IF ~RequireAdmin(r.user)
               THEN Answer(request, Forbidden("Only administrators can create articles"))
               ELSE /\ nextOid + PendingInserts < MaxContents
                    /\ Await("create_insert", request,
                             [content_data |->
                                 WithMetadata(WithAuthor(exclude_none(ContentCreate(body)),
                                                         r.user), now)])
    /\ UNCHANGED <<users, nextToken, contents, nextOid, now, pageIn, pageOut, contacts, storeDown, client, database, lifespan>>

\* ContentService.create_content: insert_one
CreateInsert ==
    \E h \in InFlight :
        /\ h.pc = "create_insert"
        /\ contents' = InsertOne(contents, nextOid + 1, h.loc.content_data)
        /\ nextOid' = nextOid + 1
        /\ Continue(h, "create_reread", [inserted_id |-> nextOid + 1])
        /\ UNCHANGED <<users, nextToken, now, pageIn, pageOut, contacts, storeDown, client, database, lifespan>>

\* ContentService.create_content: the created document is read back, formatted
\* and returned
CreateReread ==
    \E h \in InFlight :
        /\ h.pc = "create_reread"
        /\ LET created == FindById(contents, h.loc.inserted_id)
           IN  Respond(h, [status |-> 201, body |-> format_content_response(created)])
        /\ UNCHANGED <<users, nextToken, contents, nextOid, now, pageIn, pageOut, contacts, storeDown, client, database, lifespan>>

\* GET /content/item/{id}
GetById ==
    /\ Accepting
    /\ \E id \in IdInputs(nextOid) :
         Answer([op |-> "get", id |-> id], get_content_by_id(contents, id))
    /\ UNCHANGED <<users, nextToken, contents, nextOid, now, pageIn, pageOut, contacts, storeDown, client, database, lifespan>>

\* PUT /content/{id}: the identifier check, the lookup of the existing
\* document, the filtering of the partial
UpdateFind ==
    /\ Accepting
    /\ \E id \in IdInputs(nextOid), body \in Partials :
         LET request == [op |-> "update", id |-> id, content |-> body]
             update_dict == exclude_none(ContentUpdate(body))
             check == IdCheck(id, "Invalid content ID format: ", "Failed to update content: ")
         IN  IF ~ContentUpdateValid(body)
             THEN Answer(request, Unprocessable)
             ELSE IF check # EmptyDict
             THEN Answer(request, check)
             ELSE IF FindById(contents, ObjectId(id)) = NoDoc
             THEN Answer(request, HttpError(404, "Content not found with ID: " \o id))
             ELSE LET update_data == exclude_none(update_dict)
                  IN  IF NeedsWrite(update_data)
                      THEN Await("update_write", request,
                                 [update_data |-> ApplySet(update_data, [updated_at |-> now])])
                      ELSE Await("update_reread", request, EmptyDict)
    /\ UNCHANGED <<users, nextToken, contents, nextOid, now, pageIn, pageOut, contacts, storeDown, client, database, lifespan>>

\* ContentService.update_content: update_one with $set
UpdateWrite ==
    \E h \in InFlight :
        /\ h.pc = "update_write"
        /\ contents' = UpdateSet(contents, ObjectId(h.req.id), h.loc.update_data)
        /\ Continue(h, "update_reread", EmptyDict)
        /\ UNCHANGED <<users, nextToken, nextOid, now, pageIn, pageOut, contacts, storeDown, client, database, lifespan>>

\* ContentService.update_content: the document is read back, formatted and returned
UpdateReread ==
    \E h \in InFlight :
        /\ h.pc = "update_reread"
        /\ LET updated == FindById(contents, ObjectId(h.req.id))
           IN  Respond(h, [status |-> 200, body |-> format_content_response(updated)])
        /\ UNCHANGED <<users, nextToken, contents, nextOid, now, pageIn, pageOut, contacts, storeDown, client, database, lifespan>>

\* DELETE /content/{id}
DeleteContent ==
    /\ Accepting
    /\ \E id \in IdInputs(nextOid) :
         LET request == [op |-> "delete", id |-> id]
             check == IdCheck(id, "Invalid content ID format: ", "Failed to delete content: ")
         IN  IF check # EmptyDict
             THEN /\ Answer(request, check)
                  /\ UNCHANGED contents
             ELSE LET deleted == ObjectId(id) \in DOMAIN contents
                  IN  /\ contents' = DeleteOne(contents, ObjectId(id))
                      /\ Answer(request, IF deleted
                                         THEN [status |-> 204]
                                         ELSE HttpError(404, "Content not found"))
    /\ UNCHANGED <<users, nextToken, nextOid, now, pageIn, pageOut, contacts, storeDown, client, database, lifespan>>

InitContent ==
    /\ users = SessionUsers
    /\ nextToken = 2
    /\ contents = EmptyDict
    /\ nextOid = 0
    /\ now = 0
    /\ pageIn = EmptyDict
    /\ pageOut = EmptyDict
    /\ contacts = EmptyDict
    /\ storeDown = FALSE
    /\ Serving
    /\ InitRequests

NextContent ==
    \/ CreateAuth
    \/ CreateInsert
    \/ CreateReread
    \/ GetById
    \/ UpdateFind
    \/ UpdateWrite
    \/ UpdateReread
    \/ DeleteContent

SpecContent == InitContent /\ [][NextContent]_vars

(***************************************************************************)
(* Properties of the content catalog                                       *)
(***************************************************************************)
\* The users a request's bearer token resolves to
SessionOf(request) ==
    IF "authorization" \in DOMAIN request
    THEN {r.user : r \in {q \in get_current_user(users, request.authorization) :
                             q.status = 200}}
    ELSE {}

\* The request whose handler makes this step
Acting(request) ==
    \/ \E h \in InFlight :
         /\ h.req = request
         /\ \E at \in {"create_insert", "create_reread", "update_write", "update_reread"} :
              Resumed(h, at)
    \/ \E h \in InFlight : h.req = request /\ Returned(h)
    \/ /\ inflight' = inflight
       /\ resp' # EmptyDict
       /\ resp'.request = request

StepRequests == {h.req : h \in InFlight} \cup (IF resp' = EmptyDict THEN {} ELSE {resp'.request})

WriteOps == {"create", "update", "delete"}

\* A write request that resolves to no session is answered with an error
UnresolvedWriteRejected ==
    (/\ resp # EmptyDict
     /\ resp.request.op \in WriteOps
     /\ SessionOf(resp.request) = {}) => resp.response.status \notin {200, 201, 204}

\* The contents collection changes only by a request with a session

WriteHasSession ==
    contents' # contents =>
        \E request \in StepRequests : Acting(request) /\ SessionOf(request) # {}

\* C3: every write path of the content catalog (create, update, delete)
\* requires a resolved session: a write request with no bearer token, or one
\* that resolves to no user, is rejected (answered with an error status) and
\* whenever the contents collection changes, the request making the change
\* carries a token that resolves to a user.
C3_WritesRequireSession == []UnresolvedWriteRejected /\ [][WriteHasSession]_vars

IsAdmin(request) == \E u \in SessionOf(request) : Get(u, "is_admin", FALSE) = TRUE

CreatePastGuard ==
    \A h \in InFlight :
        h.pc \in {"create_insert", "create_reread"} => IsAdmin(h.req)

NonAdminCreateForbidden ==
    (/\ resp # EmptyDict
     /\ resp.request.op = "create"
     /\ ContentCreateValid(resp.request.content)
     /\ SessionOf(resp.request) # {}
     /\ ~IsAdmin(resp.request))
    => resp.response = [status |-> 403,
                        detail |-> "Only administrators can create articles"]

InsertOnlyByAdmin ==
    ~((DOMAIN contents') \subseteq (DOMAIN contents)) =>
        \E h \in InFlight :
            /\ h.pc = "create_insert"
            /\ Resumed(h, "create_reread")
            /\ IsAdmin(h.req)

\* C4: content create is admin-gated: a create (of a body the ContentCreate
\* schema accepts) whose session user does not have is_admin true is answered
\* 403 Forbidden, no create of such a user ever gets past the guard, and a document enters the contents collection only by the insert
\* of a create whose session user is an administrator.
C4_CreateAdminGated ==
    [](CreatePastGuard /\ NonAdminCreateForbidden) /\ [][InsertOnlyByAdmin]_vars

C4_Witness ==
    /\ resp # EmptyDict
    /\ resp.request.op = "create"
    /\ resp.request.authorization = ReaderHeader
    /\ resp.response.status = 403
    /\ contents = EmptyDict

\* No write has touched the item since its insert
Untouched(coll, oid) ==
    /\ oid \in DOMAIN coll
    /\ "updated_at" \notin DOMAIN coll[oid]

RoundTripFields == {"title", "type", "category", "body"}

\* The payload is already as the validators leave it
Trimmed(payload) ==
    /\ validate_title(payload.title) = payload.title
    /\ validate_body(payload.body) = payload.body

\* getById on the identifier create returned gives the payload back
FetchedIsPayload(coll, payload, created) ==
    LET fetched == get_content_by_id(coll, created.id)
    IN  /\ fetched.status = 200
        /\ "id" \in DOMAIN fetched.body
        /\ fetched.body.id = created.id
        /\ "_id" \notin DOMAIN fetched.body
        /\ \A f \in RoundTripFields :
             /\ f \in DOMAIN fetched.body
             /\ fetched.body[f] = ContentCreate(payload)[f]
             /\ Trimmed(payload) => fetched.body[f] = payload[f]

CreateReturnsId ==
    \A h \in InFlight :
        (h.pc = "create_reread" /\ Returned(h) /\ Untouched(contents, h.loc.inserted_id)) =>
            /\ resp'.response.status = 201
            /\ "id" \in DOMAIN resp'.response.body
            /\ "_id" \notin DOMAIN resp'.response.body
            /\ resp'.response.body.id = ObjectIdStr(h.loc.inserted_id)
            /\ Len(resp'.response.body.id) = 24

CreateThenGet ==
    (/\ resp # EmptyDict
     /\ resp.request.op = "create"
     /\ resp.response.status = 201
     /\ "id" \in DOMAIN resp.response.body
     /\ Untouched(contents, ObjectId(resp.response.body.id)))
    => FetchedIsPayload(contents, resp.request.content, resp.response.body)

\* C8: round trip: a create returns a 24-character string id and no _id, and
\* as long as no write has touched the item, getById on the returned id
\* yields a document with the title, type, category and body of the payload
\* (as validated; the payload's own when it is already trimmed), the same
\* string id, and no _id field.
C8_CreateGetRoundTrip == []CreateThenGet /\ [][CreateReturnsId]_vars

C8_Witness ==
    /\ resp # EmptyDict
    /\ resp.request.op = "create"
    /\ resp.response.status = 201
    /\ "id" \in DOMAIN resp.response.body
    /\ Untouched(contents, ObjectId(resp.response.body.id))
    /\ Trimmed(resp.request.content)
    /\ get_content_by_id(contents, resp.response.body.id).body.title = "Budget Update"

\* The fields of a partial whose value is not null
NonNull(partial) == {f \in DOMAIN partial : partial[f] # None}

UpdateWriteExact ==
    \A h \in InFlight :
        (h.pc = "update_write" /\ Resumed(h, "update_reread")) =>
            LET oid == ObjectId(h.req.id)
                partial == h.req.content
            IN  /\ DOMAIN contents' = DOMAIN contents
                /\ \A o \in (DOMAIN contents) \ {oid} : contents'[o] = contents[o]
                /\ oid \in DOMAIN contents =>
                     LET old == contents[oid]
                         new == contents'[oid]
                     IN  /\ DOMAIN new = (DOMAIN old) \cup NonNull(partial) \cup {"updated_at"}
                         /\ \A f \in NonNull(partial) : new[f] = partial[f]
                         /\ new["updated_at"] = now
                         /\ \A f \in (DOMAIN old) \ (NonNull(partial) \cup {"updated_at"}) :
                              new[f] = old[f]

FieldsChangeOnlyByUpdateWrite ==
    (\E o \in (DOMAIN contents) \cap (DOMAIN contents') : contents'[o] # contents[o]) =>
        \E h \in InFlight :
            /\ h.pc = "update_write"
            /\ Resumed(h, "update_reread")
            /\ NonNull(h.req.content) # {}

\* C10: the write of update(id, partial) on an existing item sets exactly the
\* fields of partial whose value is not null, and updated_at; every other
\* field of the item, those given as null and those omitted included, and
\* every other item keep their values; no other step of an update changes a
\* stored field.
C10_UpdateOverwritesNonNull == [][UpdateWriteExact /\ FieldsChangeOnlyByUpdateWrite]_vars

C10_Witness ==
    /\ resp # EmptyDict
    /\ resp.request.op = "update"
    /\ resp.request.content.title = "New"
    /\ resp.request.content.summary = None
    /\ resp.response.status = 200
    /\ resp.response.body # EmptyDict
    /\ resp.response.body.title = "New"
    /\ resp.response.body.summary = "Short"
    /\ "updated_at" \in DOMAIN resp.response.body

\* A string of exactly 24 hexadecimal characters
WellFormedId(s) ==
    /\ s # None
    /\ Len(s) = 24
    /\ \A i \in 1..24 :
         SubSeq(s, i, i) \in {"0", "1", "2", "3", "4", "5", "6", "7", "8", "9",
                              "a", "b", "c", "d", "e", "f", "A", "B", "C", "D", "E", "F"}

\* The step accepts a request, whose handler g suspends at a store call
Started(g) == inflight' = inflight (+) SetToBag({g})

\* The request is an update whose partial has no field that is not null
EmptyUpdate(request) == request.op = "update" /\ NonNull(request.content) = {}

EmptyUpdateSkipsWrite ==
    \A h \in InFlight : h.pc = "update_write" => ~EmptyUpdate(h.req)

EmptyUpdateAccepted ==
    \A g \in BagToSet(inflight') :
        (Started(g) /\ EmptyUpdate(g.req)) =>
            /\ g.pc = "update_reread"
            /\ ObjectId(g.req.id) \in DOMAIN contents
            /\ contents' = contents

EmptyUpdateReturnsCurrent ==
    \A h \in InFlight :
        (EmptyUpdate(h.req) /\ Returned(h)) =>
            /\ contents' = contents
            /\ ObjectId(h.req.id) \in DOMAIN contents =>
                 resp'.response =
                     [status |-> 200,
                      body |-> format_content_response(contents[ObjectId(h.req.id)])]

UpdateOfAbsentNotFound ==
    (/\ inflight' = inflight
     /\ resp' # EmptyDict
     /\ resp'.request.op = "update"
     /\ ContentUpdateValid(resp'.request.content)
     /\ WellFormedId(resp'.request.id)
     /\ ObjectId(resp'.request.id) \notin DOMAIN contents)
    => /\ resp'.response.status = 404
       /\ contents' = contents

\* C11: an update of an existing item whose partial is empty once the null
\* fields are dropped makes no write (no step of it changes the contents
\* collection, so the document and its updated_at stay as they are) and
\* returns the current document; an update of a well-formed id no document
\* has fails with NotFound (404).
C11_EmptyUpdateNoWrite ==
    /\ []EmptyUpdateSkipsWrite
    /\ [][EmptyUpdateAccepted /\ EmptyUpdateReturnsCurrent /\ UpdateOfAbsentNotFound]_vars

C11_Witness ==
    /\ resp # EmptyDict
    /\ EmptyUpdate(resp.request)
    /\ resp.response.status = 200
    /\ ObjectId(resp.request.id) \in DOMAIN contents
    /\ resp.response.body = format_content_response(contents[ObjectId(resp.request.id)])
    /\ "updated_at" \notin DOMAIN resp.response.body

\* The step is a delete_content call (it answers at once, with one store call)
DeleteStep ==
    /\ inflight' = inflight
    /\ resp' # EmptyDict
    /\ resp'.request.op = "delete"

DeleteAsStated ==
    DeleteStep =>
        LET id == resp'.request.id
        IN  IF ~WellFormedId(id)
            THEN /\ resp'.response.status = 400
                 /\ contents' = contents
            ELSE IF ObjectId(id) \in DOMAIN contents
            THEN /\ resp'.response.status = 204
                 /\ DOMAIN contents' = DOMAIN contents \ {ObjectId(id)}
                 /\ \A oid \in DOMAIN contents' : contents'[oid] = contents[oid]
            ELSE /\ resp'.response.status = 404
                 /\ contents' = contents

GetOfAbsentNotFound ==
    (/\ inflight' = inflight
     /\ resp' # EmptyDict
     /\ resp'.request.op = "get"
     /\ WellFormedId(resp'.request.id)
     /\ ObjectId(resp'.request.id) \notin DOMAIN contents)
    => resp'.response.status = 404

\* C12: delete of a malformed id fails with InvalidIdentifier (400) and leaves
\* the store untouched; delete of a well-formed id removes the document and
\* reports success exactly when a document with that id existed, and reports
\* "nothing deleted" without changing the store when none did (so a second
\* delete of the same id does); a get of an id without a document, as after
\* its delete, fails with NotFound.
C12_DeleteById == [][DeleteAsStated /\ GetOfAbsentNotFound]_vars

\* The failure a response reports: the status a content route answers with, or
\* the exception a contact method raises
InvalidIdentifier(response) ==
    IF "status" \in DOMAIN response
    THEN response.status = 400
    ELSE response.raised = "InvalidObjectIDException"

NotFound(response) ==
    IF "status" \in DOMAIN response
    THEN response.status = 404
    ELSE response.raised = "ContactNotFoundException"

\* The step sends the response of a request that names a document by id
AnsweredById ==
    /\ resp' # EmptyDict
    /\ "id" \in DOMAIN resp'.request
    /\ \/ inflight' = inflight
       \/ \E h \in InFlight : Returned(h) /\ h.req = resp'.request

MalformedIdRejectedAtOnce ==
    (AnsweredById /\ ~WellFormedId(resp'.request.id)) =>
        /\ InvalidIdentifier(resp'.response)
        /\ inflight' = inflight
        /\ contents' = contents
        /\ contacts' = contacts

MalformedIdNeverAwaits ==
    \A h \in InFlight : "id" \in DOMAIN h.req => WellFormedId(h.req.id)

NotFoundOnlyAfterLookup ==
    (AnsweredById /\ NotFound(resp'.response)) =>
        /\ WellFormedId(resp'.request.id)
        /\ ObjectId(resp'.request.id) \notin
               (IF resp'.request.op \in {"get_contact", "update_status"}
                THEN DOMAIN contacts ELSE DOMAIN contents)

\* C13: in every operation that takes a document id a malformed id is
\* answered with InvalidIdentifier (400) at once, before any store call (the
\* handler never suspends at one and no collection changes), and NotFound
\* (404) is answered only for a well-formed id whose lookup found no document.
C13_MalformedIdBeforeStore ==
    /\ []MalformedIdNeverAwaits
    /\ [][MalformedIdRejectedAtOnce /\ NotFoundOnlyAfterLookup]_vars

\* The type and the category of a stored item or of a request body, where
\* given, are members of the enumerations
EnumsOf(content) ==
    /\ ("type" \in DOMAIN content /\ content.type # None) => content.type \in ContentType
    /\ ("category" \in DOMAIN content /\ content.category # None) =>
           content.category \in ContentCategory

StoredEnumsClosed ==
    \A oid \in DOMAIN contents :
        /\ contents[oid].type \in ContentType
        /\ contents[oid].category \in ContentCategory

OutsideEnumNeverAwaits ==
    \A h \in InFlight : h.req.op \in {"create", "update"} => EnumsOf(h.req.content)

OutsideEnumRejected ==
    (/\ resp' # EmptyDict
     /\ resp'.request.op \in {"create", "update"}
     /\ ~EnumsOf(resp'.request.content)
     /\ inflight' = inflight)
    => /\ resp'.response.status \in {401, 422}
       /\ contents' = contents

\* C18: whatever creates, updates and deletes have run, every stored item has
\* its type and its category in the enumerations; a create or an update that
\* carries a value outside them is rejected (422, or 401 without a session)
\* at once: its handler never reaches a store call and nothing is persisted.
C18_EnumsClosed ==
    /\ [](StoredEnumsClosed /\ OutsideEnumNeverAwaits)
    /\ [][OutsideEnumRejected]_vars

C18_Witness ==
    /\ resp # EmptyDict
    /\ resp.request.op = "update"
    /\ resp.request.content.category \notin ContentCategory \cup {None}
    /\ resp.request.id = ObjectIdStr(1)
    /\ 1 \in DOMAIN contents
    /\ resp.response.status = 422

\* C22: whenever create returns, under any interleaving with other requests
\* (a delete of the new id between the insert and the re-read included), the
\* value returned carries the id of the document the create inserted and the
\* fields of the payload as validated.
C22_CreateReturnsCreated ==
    [][\A h \in InFlight :
         (h.pc = "create_reread" /\ Returned(h)) =>
             /\ resp'.response.status = 201
             /\ "id" \in DOMAIN resp'.response.body
             /\ resp'.response.body.id = ObjectIdStr(h.loc.inserted_id)
             /\ \A f \in RoundTripFields :
                  /\ f \in DOMAIN resp'.response.body
                  /\ resp'.response.body[f] = ContentCreate(h.req.content)[f]]_vars

\* The step sends the response of an update of a well-formed id
UpdateAnswered ==
    /\ resp' # EmptyDict
    /\ resp'.request.op = "update"
    /\ ContentUpdateValid(resp'.request.content)
    /\ WellFormedId(resp'.request.id)
    /\ \/ inflight' = inflight
       \/ \E h \in InFlight : h.pc = "update_reread" /\ Returned(h) /\ h.req = resp'.request

\* C23: under any interleaving with other requests (a delete of the id
\* between the existence check and the re-read included) an update of a
\* well-formed id either fails with NotFound or returns a formatted document
\* whose id is the id given, never an empty or id-less document.
C23_UpdateNotFoundOrDocument ==
    [][UpdateAnswered =>
         \/ resp'.response.status = 404
         \/ /\ resp'.response.status = 200
            /\ "id" \in DOMAIN resp'.response.body
            /\ resp'.response.body.id = resp'.request.id]_vars

(***************************************************************************)
(* Content listing  (ContentService.get_contents_by_filter)                *)
(***************************************************************************)
MaxListed == 3

\* collection.count_documents(query)
count_documents(coll, query) == Cardinality(FindOne(coll, query))

\* The orders sort("date", -1) may give the documents ids: latest first, ties
\* in either order
SortedByDate(coll, ids) ==
    {s \in [1..Cardinality(ids) -> ids] :
        /\ \A i, j \in DOMAIN s : i # j => s[i] # s[j]
        /\ \A i, j \in DOMAIN s : i < j => coll[s[i]].date >= coll[s[j]].date}

\* As FindSorted, but skip and limit are applied in the order of insertion and
\* the documents left are sorted
FindSortedLast(coll, query, skip, limit) ==
    LET ids == FindOne(coll, query)
        kept == {i \in ids : /\ Cardinality({j \in ids : j < i}) >= skip
                             /\ Cardinality({j \in ids : j < i}) < skip + limit}
    IN  {[i \in DOMAIN s |-> coll[s[i]]] : s \in SortedByDate(coll, kept)}

\* collection.find(query).skip(skip).limit(limit).sort("date", -1): the cursor
\* sorts, then skips, then limits
FindSorted(coll, query, skip, limit) ==
    {[i \in 1..max(0, min(limit, Len(s) - skip)) |-> coll[s[skip + i]]] :
        s \in SortedByDate(coll, FindOne(coll, query))}

\* As FilterQuery, but the type is left out of the query
FilterQueryCategoryOnly(category, type) == [category |-> category]

\* get_contents_by_filter: the query when there is no search text
FilterQuery(category, type) == [category |-> category, type |-> type]

\* items.append(format_content_response(document)) for each document
FormatAll(docs) == [i \in DOMAIN docs |-> format_content_response(docs[i])]

\* The stores the listing is applied to: up to MaxListed items as create leaves
\* them, inserted in the order of their dates
ListCategories == {"gst", "mca"}
ListTypes == {"news", "articles"}
SeedDates == {0, 1}
SeedItem(category, type, date) ==
    WithMetadata(WithAuthor(exclude_none(ContentCreate(
        [title |-> "Notice", type |-> type, category |-> category,
         body |-> "Body of the notice", summary |-> None, author |-> None,
         images |-> None])), SessionUsers[1]), date)
SeedStores ==
    LET kinds == [category : ListCategories, type : ListTypes, date : SeedDates]
        seeds == {s \in UNION {[1..k -> kinds] : k \in 0..MaxListed} :
                     \A i, j \in DOMAIN s : i < j => s[i].date <= s[j].date}
    IN  {[i \in DOMAIN s |->
             ("_id" :> i) @@ SeedItem(s[i].category, s[i].type, s[i].date)] : s \in seeds}

\* GET /content/{category}/{type}: count_documents
ListCount ==
    /\ inflight = EmptyBag
    /\ \E category \in ListCategories, type \in ListTypes, skip \in {0, 1},
          limit \in {1, 10} :
         LET request == [op |-> "list_by_filter", category |-> category, type |-> type,
                         skip |-> skip, limit |-> limit, q |-> None]
             query == FilterQuery(category, type)
         IN  Await("list_find", request,
                   [query |-> query, total |-> count_documents(contents, query)])
    /\ UNCHANGED <<users, nextToken, contents, nextOid, now, pageIn, pageOut, contacts, storeDown, client, database, lifespan>>

\* GET /content/{category}/{type}: the cursor is read, the items are formatted
\* and the list response is returned
ListFind ==
    \E h \in InFlight :
        /\ h.pc = "list_find"
        /\ \E docs \in FindSorted(contents, h.loc.query, h.req.skip, h.req.limit) :
             Respond(h, [status |-> 200,
                         body |-> create_list_response(FormatAll(docs), h.loc.total,
                                                       h.req.skip, h.req.limit)])
        /\ UNCHANGED <<users, nextToken, contents, nextOid, now, pageIn, pageOut, contacts, storeDown, client, database, lifespan>>

InitList ==
    /\ users = SessionUsers
    /\ nextToken = 2
    /\ contents \in SeedStores
    /\ nextOid = Len(contents)
    /\ now = 1
    /\ pageIn = EmptyDict
    /\ pageOut = EmptyDict
    /\ contacts = EmptyDict
    /\ storeDown = FALSE
    /\ Serving
    /\ InitRequests

NextList ==
    \/ ListCount
    \/ ListFind

SpecList == InitList /\ [][NextList]_vars

\* The stored items whose category and type are both the ones asked for
MatchingBoth(category, type) ==
    {i \in DOMAIN contents :
        contents[i].category = category /\ contents[i].type = type}

\* C9: listByFilter(category, type, skip = 0, limit) with no search text
\* returns as items exactly the stored items whose category and type both
\* equal the ones given, up to limit of them and each once, and reports as
\* total the number of such items; an item matching only one of the two
\* fields is never returned.
C9_FilterMatchesBoth ==
    (/\ resp # EmptyDict
     /\ resp.request.op = "list_by_filter"
     /\ resp.request.skip = 0
     /\ resp.request.q = None)
    => LET matching == MatchingBoth(resp.request.category, resp.request.type)
           items == resp.response.body.items
       IN  /\ resp.response.status = 200
           /\ resp.response.body.total = Cardinality(matching)
           /\ Len(items) = min(resp.request.limit, Cardinality(matching))
           /\ \A k \in DOMAIN items :
                \E i \in matching : items[k] = format_content_response(contents[i])
           /\ \A k, l \in DOMAIN items : k # l => items[k].id # items[l].id
           /\ \A k \in DOMAIN items :
                /\ items[k].category = resp.request.category
                /\ items[k].type = resp.request.type

C9_Witness ==
    /\ Len(contents) = 3
    /\ <<contents[1].category, contents[2].category, contents[3].category>>
         = <<"gst", "mca", "gst">>
    /\ <<contents[1].type, contents[2].type, contents[3].type>>
         = <<"news", "news", "articles">>
    /\ resp # EmptyDict
    /\ resp.request.op = "list_by_filter"
    /\ resp.request.category = "gst" /\ resp.request.type = "news"
    /\ resp.request.skip = 0 /\ resp.request.limit = 10
    /\ resp.response.body.total = 1
    /\ Len(resp.response.body.items) = 1
    /\ resp.response.body.items[1].id = ObjectIdStr(1)

(***************************************************************************)
(* The identifier codec applied to arbitrary arguments                     *)
(***************************************************************************)
\* The arguments: None and strings of 0 to 27 characters, hexadecimal digits
\* of either case and others
IdTails ==
    LET chars == {"0", "a", "F", "g", " "}
    IN  {""} \cup chars \cup {c \o d : c \in chars, d \in chars}
IdArguments ==
    {None}
    \cup {p \o t : p \in {"", "0000000000000000000000", "00000000000000000000000",
                          "000000000000000000000000", "0000000000000000000000000"},
                   t \in IdTails}

InitCodec ==
    /\ pageIn \in [id_str : IdArguments]
    /\ pageOut = EmptyDict
    /\ contacts = EmptyDict
    /\ storeDown = FALSE
    /\ Serving
    /\ users = InitUsers
    /\ nextToken = 0
    /\ contents = EmptyDict
    /\ nextOid = 0
    /\ now = 0
    /\ InitRequests

IsValidId ==
    /\ pageOut' = [op |-> "is_valid_object_id", result |-> is_valid_object_id(pageIn.id_str)]
    /\ UNCHANGED <<pageIn, users, nextToken, contents, nextOid, now, inflight, resp,
                 contacts, storeDown, client, database, lifespan>>

ToId ==
    /\ pageOut' = [op |-> "convert_to_object_id",
                   result |-> convert_to_object_id(pageIn.id_str)]
    /\ UNCHANGED <<pageIn, users, nextToken, contents, nextOid, now, inflight, resp,
                 contacts, storeDown, client, database, lifespan>>

NextCodec == IsValidId \/ ToId

SpecCodec == InitCodec /\ [][NextCodec]_vars

\* C16: is_valid_object_id(s) returns true if and only if s is a string of
\* exactly 24 hexadecimal characters; for every other argument (wrong length,
\* other characters, the empty string, None) it returns false.
C16_IsValidIffWellFormed ==
    (pageOut # EmptyDict /\ pageOut.op = "is_valid_object_id") =>
        pageOut.result = Return(WellFormedId(pageIn.id_str))

\* C17: convert_to_object_id of a string that is not a valid identifier fails
\* with InvalidIdentifier and returns no value; of a valid string it returns
\* the identifier whose string rendering is that string.
C17_ToIdFailsOrConverts ==
    (pageOut # EmptyDict /\ pageOut.op = "convert_to_object_id" /\ pageIn.id_str # None) =>
        IF WellFormedId(pageIn.id_str)
        THEN /\ pageOut.result.raised = ""
             /\ ObjectIdStr(pageOut.result.value) = pageIn.id_str
        ELSE pageOut.result = Raise("InvalidObjectIDException")

(***************************************************************************)
(* Contact submissions  (app/services/contact.py, app/schemas/contact.py)  *)
(***************************************************************************)
MaxContacts == 4

ContactStatus == {"new", "reviewed", "replied", "archived"}

\* raise Exc(detail)
RaiseWith(exc, detail) == [raised |-> exc, detail |-> detail]

\* format_contact_response(contact): _id is popped and rendered under id
format_contact_response(contact) ==
    IF contact = NoDoc THEN EmptyDict
    ELSE IF "_id" \in DOMAIN contact
         THEN [f \in ((DOMAIN contact) \ {"_id"}) \cup {"id"} |->
                 IF f = "id" THEN ObjectIdStr(contact["_id"]) ELSE contact[f]]
         ELSE contact

\* if not is_valid_object_id(id): raise InvalidObjectIDException, inside the
\* try block of a ContactService method: what the method raises, or EmptyDict
\* when it goes on
ContactIdCheck(id, failed) ==
    LET valid == is_valid_object_id(id)
    IN  IF valid.raised # ""
        THEN RaiseWith("DatabaseException", failed \o InvalidIdMessage(id))
        ELSE IF ~valid.value
        THEN RaiseWith("InvalidObjectIDException", "Invalid contact ID format: " \o id)
        ELSE EmptyDict

\* The contact_data a caller passes to create_contact: the dump of a
\* ContactCreate, and a dict that carries a status of its own
Submissions ==
    {[name |-> "Asha", email |-> "asha@tax.in", message |-> "Please call me back."],
     [name |-> "Asha", email |-> "asha@tax.in", message |-> "Please call me back.",
      status |-> "archived"]}

\* The statuses a caller passes to update_contact_status(id, status: str)
StatusInputs == {"reviewed", "replied", "archived", "spam"}

\* The requests of this collection are served one at a time
Idle == inflight = EmptyBag

\* ContactService.create_contact: the metadata and insert_one
ContactCreate ==
    /\ Idle
    /\ nextOid < MaxContacts
    /\ \E contact_data \in Submissions :
         /\ contacts' = InsertOne(contacts, nextOid + 1,
                                  ApplySet(contact_data,
                                           [date |-> now, status |-> "new",
                                            created_at |-> now]))
         /\ nextOid' = nextOid + 1
         /\ Await("contact_reread", [op |-> "create_contact", contact |-> contact_data],
                  [inserted_id |-> nextOid + 1])
    /\ UNCHANGED <<users, nextToken, contents, now, pageIn, pageOut, storeDown, client, database, lifespan>>

\* ContactService.create_contact: the created document is read back, formatted
\* and returned
ContactReread ==
    \E h \in InFlight :
        /\ h.pc = "contact_reread"
        /\ Respond(h, Return(format_contact_response(FindById(contacts, h.loc.inserted_id))))
        /\ UNCHANGED <<users, nextToken, contents, contacts, nextOid, now, pageIn, pageOut,
                     storeDown, client, database, lifespan>>

\* ContactService.get_contact_by_id
GetContact ==
    /\ Idle
    /\ \E id \in IdInputs(nextOid) :
         LET request == [op |-> "get_contact", id |-> id]
             check == ContactIdCheck(id, "Failed to fetch contact: ")
         IN  IF check # EmptyDict
             THEN Answer(request, check)
             ELSE LET contact == FindById(contacts, ObjectId(id))
                  IN  IF contact = NoDoc
                      THEN Answer(request, RaiseWith("ContactNotFoundException",
                                                     "Contact not found with ID: " \o id))
                      ELSE Answer(request, Return(format_contact_response(contact)))
    /\ UNCHANGED <<users, nextToken, contents, contacts, nextOid, now, pageIn, pageOut,
                 storeDown, client, database, lifespan>>

\* ContactService.update_contact_status: the id check and the existence check
StatusFind ==
    /\ Idle
    /\ \E id \in IdInputs(nextOid), status \in StatusInputs :
         LET request == [op |-> "update_status", id |-> id, status |-> status]
             check == ContactIdCheck(id, "Failed to update contact: ")
         IN  IF check # EmptyDict
             THEN Answer(request, check)
             ELSE IF FindById(contacts, ObjectId(id)) = NoDoc
             THEN Answer(request, RaiseWith("ContactNotFoundException",
                                            "Contact not found with ID: " \o id))
             ELSE Await("status_write", request, EmptyDict)
    /\ UNCHANGED <<users, nextToken, contents, contacts, nextOid, now, pageIn, pageOut,
                 storeDown, client, database, lifespan>>

\* ContactService.update_contact_status: update_one with $set
StatusWrite ==
    \E h \in InFlight :
        /\ h.pc = "status_write"
        /\ contacts' = UpdateSet(contacts, ObjectId(h.req.id),
                                 [status |-> h.req.status, updated_at |-> now])
        /\ Continue(h, "status_reread", EmptyDict)
        /\ UNCHANGED <<users, nextToken, contents, nextOid, now, pageIn, pageOut, storeDown, client, database, lifespan>>

\* ContactService.update_contact_status: the document is read back, formatted
\* and returned
StatusReread ==
    \E h \in InFlight :
        /\ h.pc = "status_reread"
        /\ Respond(h, Return(format_contact_response(FindById(contacts, ObjectId(h.req.id)))))
        /\ UNCHANGED <<users, nextToken, contents, contacts, nextOid, now, pageIn, pageOut,
                     storeDown, client, database, lifespan>>

\* ContactService.get_contact_stats: count_documents({})
StatsTotal ==
    /\ Idle
    /\ Await("stats_new", [op |-> "stats"], [total |-> count_documents(contacts, EmptyDict)])
    /\ UNCHANGED <<users, nextToken, contents, contacts, nextOid, now, pageIn, pageOut,
                 storeDown, client, database, lifespan>>

\* ContactService.get_contact_stats: count_documents({"status": "new"})
StatsNew ==
    \E h \in InFlight :
        /\ h.pc = "stats_new"
        /\ Continue(h, "stats_reviewed",
                    [new |-> count_documents(contacts, [status |-> "new"])] @@ h.loc)
        /\ UNCHANGED <<users, nextToken, contents, contacts, nextOid, now, pageIn, pageOut,
                     storeDown, client, database, lifespan>>

\* ContactService.get_contact_stats: count_documents({"status": "reviewed"})
StatsReviewed ==
    \E h \in InFlight :
        /\ h.pc = "stats_reviewed"
        /\ Continue(h, "stats_replied",
                    [reviewed |-> count_documents(contacts, [status |-> "reviewed"])] @@ h.loc)
        /\ UNCHANGED <<users, nextToken, contents, contacts, nextOid, now, pageIn, pageOut,
                     storeDown, client, database, lifespan>>

\* ContactService.get_contact_stats: count_documents({"status": "replied"})
StatsReplied ==
    \E h \in InFlight :
        /\ h.pc = "stats_replied"
        /\ Continue(h, "stats_archived",
                    [replied |-> count_documents(contacts, [status |-> "replied"])] @@ h.loc)
        /\ UNCHANGED <<users, nextToken, contents, contacts, nextOid, now, pageIn, pageOut,
                     storeDown, client, database, lifespan>>

\* ContactService.get_contact_stats: count_documents({"status": "archived"})
\* and the dictionary returned
StatsArchived ==
    \E h \in InFlight :
        /\ h.pc = "stats_archived"
        /\ Respond(h, Return([archived |-> count_documents(contacts, [status |-> "archived"])]
                             @@ h.loc))
        /\ UNCHANGED <<users, nextToken, contents, contacts, nextOid, now, pageIn, pageOut,
                     storeDown, client, database, lifespan>>

InitContact ==
    /\ users = SessionUsers
    /\ nextToken = 2
    /\ contents = EmptyDict
    /\ contacts = EmptyDict
    /\ nextOid = 0
    /\ now = 0
    /\ pageIn = EmptyDict
    /\ pageOut = EmptyDict
    /\ storeDown = FALSE
    /\ Serving
    /\ InitRequests

NextContact ==
    \/ ContactCreate \/ ContactReread
    \/ GetContact
    \/ StatusFind \/ StatusWrite \/ StatusReread
    \/ StatsTotal \/ StatsNew \/ StatsReviewed \/ StatsReplied \/ StatsArchived

SpecContact == InitContact /\ [][NextContact]_vars

\* The number of stored contacts whose status is the one given
WithStatus(status) ==
    Cardinality({oid \in DOMAIN contacts : contacts[oid].status = status})

StatsAnswered ==
    /\ resp' # EmptyDict
    /\ resp'.request.op = "stats"
    /\ \E h \in InFlight : h.pc = "stats_archived" /\ Returned(h)

\* C14: a get_contact_stats that no write overlaps (the requests are served
\* one at a time), on a collection built by create_contact and
\* update_contact_status, returns the five counts, each status count being
\* the number of stored contacts with that status and total being their sum.
C14_StatsConsistent ==
    [][StatsAnswered =>
         LET stats == resp'.response.value
         IN  /\ resp'.response.raised = ""
             /\ DOMAIN stats = {"total", "new", "reviewed", "replied", "archived"}
             /\ \A status \in ContactStatus : stats[status] = WithStatus(status)
             /\ stats.total = Cardinality(DOMAIN contacts)
             /\ stats.total = stats.new + stats.reviewed + stats.replied + stats.archived]_vars

\* C19: whatever create_contact and update_contact_status calls have run,
\* every stored contact has its status in the enumeration: a created contact
\* has status new whatever the payload carried, and update_contact_status
\* stores no status outside the enumeration.
C19_StatusInEnum ==
    \A oid \in DOMAIN contacts : contacts[oid].status \in ContactStatus

(***************************************************************************)
(* Store failures  (app/api/auth.py, app/services/content.py)              *)
(*                                                                         *)
(* While storeDown holds a store call may raise a driver error instead of  *)
(* returning.  What the caller receives is decided by the except clauses   *)
(* around the call.                                                        *)
(***************************************************************************)
\* The error a store call raises (pymongo.errors.PyMongoError) and its str()
DriverError == "PyMongoError"
DriverMessage == "connection closed"

\* get_current_user, login: find_one raises; the function has no except
\* clause, the error leaves it as raised
SessionLookupFails ==
    /\ storeDown
    /\ Accepting
    /\ \E request \in
            {[op |-> "login", email |-> email, password |-> password] :
                email \in Emails, password \in Passwords}
            \cup {[op |-> op, authorization |-> authorization] :
                    op \in {"me", "logout"},
                    authorization \in {a \in Headers(nextToken) \ {NoHeader} :
                                          a.scheme = "Bearer "}} :
         Answer(request, Raise(DriverError))
    /\ UNCHANGED <<users, nextToken, contents, nextOid, now, pageIn, pageOut, contacts,
                 storeDown, client, database, lifespan>>

\* login, logout: update_one raises; the function has no except clause, the
\* error leaves it as raised and the user document is not written
SessionWriteFails ==
    /\ storeDown
    /\ \E h \in InFlight :
        /\ h.pc \in {"login_write", "logout_write"}
        /\ Respond(h, Raise(DriverError))
    /\ UNCHANGED <<users, nextToken, contents, nextOid, now, pageIn, pageOut, contacts,
                 storeDown, client, database, lifespan>>

\* ContentService.get_content_by_id: find_one raises; except Exception turns
\* the error into DatabaseException, which the route answers with 500
ContentLookupFails ==
    /\ storeDown
    /\ Accepting
    /\ \E id \in IdInputs(nextOid) :
         /\ IdCheck(id, "Invalid content ID format: ", "Failed to fetch content: ") = EmptyDict
         /\ Answer([op |-> "get", id |-> id],
                   HttpError(500, "Failed to fetch content: " \o DriverMessage))
    /\ UNCHANGED <<users, nextToken, contents, nextOid, now, pageIn, pageOut, contacts,
                 storeDown, client, database, lifespan>>

InitFailure ==
    /\ users = InitUsers
    /\ nextToken = 0
    /\ contents = EmptyDict
    /\ nextOid = 0
    /\ now = 0
    /\ pageIn = EmptyDict
    /\ pageOut = EmptyDict
    /\ contacts = EmptyDict
    /\ storeDown = TRUE
    /\ Serving
    /\ InitRequests

NextFailure ==
    \/ LoginFind \/ LoginWrite \/ Me \/ LogoutAuth \/ LogoutWrite
    \/ GetById
    \/ SessionLookupFails \/ SessionWriteFails \/ ContentLookupFails

SpecFailure == InitFailure /\ [][NextFailure]_vars

\* The exceptions of the taxonomy, as the services raise them
Taxonomy ==
    {"InvalidObjectIDException", "ContentNotFoundException", "ContactNotFoundException",
     "DatabaseException"}

\* C15: whatever store call fails, the caller of an operation receives either
\* its result or a failure of the taxonomy (a store failure as
\* DatabaseException, status 500 with its message); the driver's own
\* exception never reaches the caller.
C15_StoreFailureWrapped ==
    (resp # EmptyDict /\ "raised" \in DOMAIN resp.response) =>
        resp.response.raised \in Taxonomy \cup {""}

(***************************************************************************)
(* Text search  (app/services/content.py: get_all_contents,                *)
(* get_contents_by_filter with a search text)                              *)
(***************************************************************************)
ascii_uppercase == "ABCDEFGHIJKLMNOPQRSTUVWXYZ"
ascii_lowercase == "abcdefghijklmnopqrstuvwxyz"

\* The character c with its case folded ("$options": "i")
lower_char(c) ==
    IF \E i \in 1..Len(ascii_uppercase) : SubSeq(ascii_uppercase, i, i) = c
    THEN LET i == CHOOSE i \in 1..Len(ascii_uppercase) : SubSeq(ascii_uppercase, i, i) = c
         IN  SubSeq(ascii_lowercase, i, i)
    ELSE c

\* The pattern character p matches the text character c: "." matches any
\* character but a newline, another character matches itself in either case
RegexCharMatches(p, c) ==
    IF p = "." THEN c # "\n" ELSE lower_char(p) = lower_char(c)

\* {"$regex": pattern, "$options": "i"} applied to a text: the pattern matches
\* somewhere in it
RegexSearch(pattern, text) ==
    \E i \in 1..(Len(text) - Len(pattern) + 1) :
        \A k \in 1..Len(pattern) :
            RegexCharMatches(SubSeq(pattern, k, k), SubSeq(text, i + k - 1, i + k - 1))

\* {field: {"$regex": search, "$options": "i"}}: a document without the field
\* does not match
RegexClause(doc, field, search) ==
    /\ field \in DOMAIN doc
    /\ doc[field] # None
    /\ RegexSearch(search, doc[field])

\* if search: query["$or"] = [title, body, summary clauses]
HasSearch(search) == search # None /\ search # ""

\* The _ids of the documents that match the equality part of the query and,
\* when there is a search text, one of the three $regex clauses
FindSearch(coll, query, search) ==
    {i \in FindOne(coll, query) :
        HasSearch(search) =>
            \E field \in {"title", "body", "summary"} : RegexClause(coll[i], field, search)}

\* collection.find(query).skip(skip).limit(limit).sort("date", -1) with the
\* search clauses in the query
FindSortedSearch(coll, query, search, skip, limit) ==
    {[i \in 1..max(0, min(limit, Len(s) - skip)) |-> coll[s[skip + i]]] :
        s \in SortedByDate(coll, FindSearch(coll, query, search))}

\* The search texts a client sends in q
Searches == {None, "", "gst", "RATES", "a.c"}

\* The items the search is applied to, as create leaves them
SearchSeeds ==
    <<[title |-> "GST rates", type |-> "news", category |-> "gst",
       body |-> "The council revised them.", summary |-> "See a.c of the order",
       author |-> None, images |-> None],
      [title |-> "Budget", type |-> "articles", category |-> "gst",
       body |-> "An abc of the budget; new rates.", summary |-> None,
       author |-> None, images |-> None],
      [title |-> "Notice (draft)", type |-> "news", category |-> "mca",
       body |-> "Filing dates moved.", summary |-> "No GST impact",
       author |-> None, images |-> None]>>

\* The stores: any of the seed items, inserted one after the other
SearchStores ==
    LET picks == {s \in UNION {[1..k -> DOMAIN SearchSeeds] : k \in 0..Len(SearchSeeds)} :
                     \A i, j \in DOMAIN s : i < j => s[i] < s[j]}
    IN  {[i \in DOMAIN s |->
             ("_id" :> i) @@ WithMetadata(WithAuthor(exclude_none(ContentCreate(
                                 SearchSeeds[s[i]])), SessionUsers[1]), i)] : s \in picks}

\* The count_documents step of a list operation given a search text
SearchCount(request, query) ==
    Await("search_find", request,
          [query |-> query,
           total |-> Cardinality(FindSearch(contents, query, request.q))])

\* GET /content/?q=: ContentService.get_all_contents, count_documents
SearchAllCount ==
    /\ Idle
    /\ \E q \in Searches :
         SearchCount([op |-> "list_all", skip |-> 0, limit |-> 10, q |-> q],
                     EmptyDict)
    /\ UNCHANGED <<users, nextToken, contents, nextOid, now, pageIn, pageOut, contacts,
                 storeDown, client, database, lifespan>>

\* GET /content/{category}/{type}?q=: ContentService.get_contents_by_filter,
\* count_documents
SearchFilterCount ==
    /\ Idle
    /\ \E q \in Searches, category \in ListCategories, type \in ListTypes :
         SearchCount([op |-> "list_by_filter", category |-> category, type |-> type,
                      skip |-> 0, limit |-> 10, q |-> q],
                     FilterQuery(category, type))
    /\ UNCHANGED <<users, nextToken, contents, nextOid, now, pageIn, pageOut, contacts,
                 storeDown, client, database, lifespan>>

\* The cursor is read, the items are formatted and the list response is returned
SearchFind ==
    \E h \in InFlight :
        /\ h.pc = "search_find"
        /\ \E docs \in FindSortedSearch(contents, h.loc.query, h.req.q,
                                        h.req.skip, h.req.limit) :
             Respond(h, [status |-> 200,
                         body |-> create_list_response(FormatAll(docs), h.loc.total,
                                                       h.req.skip, h.req.limit)])
        /\ UNCHANGED <<users, nextToken, contents, nextOid, now, pageIn, pageOut, contacts,
                     storeDown, client, database, lifespan>>

InitSearch ==
    /\ users = SessionUsers
    /\ nextToken = 2
    /\ contents \in SearchStores
    /\ nextOid = Len(contents)
    /\ now = Len(SearchSeeds)
    /\ pageIn = EmptyDict
    /\ pageOut = EmptyDict
    /\ contacts = EmptyDict
    /\ storeDown = FALSE
    /\ Serving
    /\ InitRequests

NextSearch == SearchAllCount \/ SearchFilterCount \/ SearchFind

SpecSearch == InitSearch /\ [][NextSearch]_vars

\* The text q is, letter case apart, a literal substring of the text
ContainsIgnoringCase(text, q) ==
    \E i \in 1..(Len(text) - Len(q) + 1) :
        \A k \in 1..Len(q) :
            lower_char(SubSeq(q, k, k)) = lower_char(SubSeq(text, i + k - 1, i + k - 1))

\* The stored items a list request is to select
Selected(request) ==
    {i \in DOMAIN contents :
        /\ request.op = "list_by_filter" =>
             /\ contents[i].category = request.category
             /\ contents[i].type = request.type
        /\ (request.q # None /\ request.q # "") =>
             \E field \in {"title", "body", "summary"} :
                 /\ field \in DOMAIN contents[i]
                 /\ ContainsIgnoringCase(contents[i][field], request.q)}

\* C20: a list request with a search text selects exactly the items of which
\* the text is, case-insensitively, a literal substring of the title, of the
\* body or of the summary (an item without summary matches through title or
\* body only); without a text it selects every item; listByFilter applies the
\* same condition together with the equality of category and type.
C20_SearchIsLiteralSubstring ==
    (resp # EmptyDict /\ resp.request.op \in {"list_all", "list_by_filter"}
        /\ "q" \in DOMAIN resp.request /\ resp.request.skip = 0 /\ resp.request.limit = 10)
    => /\ resp.response.status = 200
       /\ resp.response.body.total = Cardinality(Selected(resp.request))
       /\ {resp.response.body.items[k].id : k \in DOMAIN resp.response.body.items}
              = {ObjectIdStr(i) : i \in Selected(resp.request)}

(***************************************************************************)
(* Store-handle lifecycle  (app/core/database.py, app/main.py,             *)
(* app/core/admin_init.py)                                                 *)
(***************************************************************************)
\* ADMIN_EMAIL, ADMIN_PASSWORD and ADMIN_NAME of the environment
AdminEmail == "admin@tax.in"
AdminPassword == "admin-pass"
AdminName == "Administrator"

\* init_admin_user: the $set applied to the existing administrator
AdminReset(user, t) ==
    ApplySet(user, [is_admin |-> TRUE, password |-> hash_password(AdminPassword),
                    name |-> AdminName, updated_at |-> t, roles |-> <<"admin">>])

\* init_admin_user(db): the user with the administrator's email is updated,
\* or created when there is none
init_admin_user(coll, t) ==
    LET existing == FindOne(coll, [email |-> AdminEmail])
    IN  IF existing # {}
        THEN LET id == CHOOSE i \in existing : TRUE
             IN  UpdateOne(coll, id, AdminReset(coll[id], t))
        ELSE LET id == Cardinality(DOMAIN coll) + 1
             IN  (id :> [_id |-> id, email |-> AdminEmail, name |-> AdminName,
                         password |-> hash_password(AdminPassword), is_admin |-> TRUE,
                         created_at |-> t, roles |-> <<"admin">>]) @@ coll

\* get_db(): the handle, or RuntimeError while _database is None
get_db ==
    IF database = None
    THEN RaiseWith("RuntimeError", "Database not initialized. Call init_db() first.")
    ELSE Return(database)

\* init_db: the client is created and _database is set from it
InitDbConnect ==
    /\ lifespan = "startup"
    /\ client' = "connected"
    /\ database' = "AsyncIOMotorDatabase"
    /\ lifespan' = "init_ping"
    /\ UNCHANGED <<users, nextToken, contents, nextOid, now, inflight, resp, pageIn, pageOut,
                 contacts, storeDown>>

\* init_db: the creation of the client raises (a malformed MONGO_URL); the
\* error is logged and raised again, and lifespan raises it in turn
InitDbConnectFails ==
    /\ lifespan = "startup"
    /\ lifespan' = "failed"
    /\ UNCHANGED <<users, nextToken, contents, nextOid, now, inflight, resp, pageIn, pageOut,
                 contacts, storeDown, client, database>>

\* init_db: await _database.command('ping') returns
InitDbPing ==
    /\ lifespan = "init_ping"
    /\ lifespan' = "init_indexes"
    /\ UNCHANGED <<users, nextToken, contents, nextOid, now, inflight, resp, pageIn, pageOut,
                 contacts, storeDown, client, database>>

\* init_db: the ping raises (the server is not reachable); the error is
\* logged and raised again with _client and _database as they are
InitDbPingFails ==
    /\ lifespan = "init_ping"
    /\ lifespan' = "failed"
    /\ UNCHANGED <<users, nextToken, contents, nextOid, now, inflight, resp, pageIn, pageOut,
                 contacts, storeDown, client, database>>

\* init_db: init_indexes, which logs its errors and returns
InitIndexes ==
    /\ lifespan = "init_indexes"
    /\ lifespan' = "init_admin"
    /\ UNCHANGED <<users, nextToken, contents, nextOid, now, inflight, resp, pageIn, pageOut,
                 contacts, storeDown, client, database>>

\* lifespan: db = await get_db(); await init_admin_user(db); then the yield.
\* No request is served during the startup, so the find_one and the
\* update_one of init_admin_user are taken together.
InitAdminUser ==
    /\ lifespan = "init_admin"
    /\ get_db.raised = ""
    /\ users' = init_admin_user(users, now)
    /\ lifespan' = "serving"
    /\ UNCHANGED <<nextToken, contents, nextOid, now, inflight, resp, pageIn, pageOut,
                 contacts, storeDown, client, database>>

\* lifespan after the yield: close_db closes the client; the server runs it
\* once the requests in flight have been answered
CloseDb ==
    /\ lifespan = "serving"
    /\ inflight = EmptyBag
    /\ client' = (IF client # None THEN "closed" ELSE client)
    /\ lifespan' = "closed"
    /\ UNCHANGED <<users, nextToken, contents, nextOid, now, inflight, resp, pageIn, pageOut,
                 contacts, storeDown, database>>

\* The process is started again: the module globals are None, the store
\* keeps its documents
Restart ==
    /\ lifespan \in {"failed", "closed"}
    /\ client' = None
    /\ database' = None
    /\ lifespan' = "startup"
    /\ UNCHANGED <<users, nextToken, contents, nextOid, now, inflight, resp, pageIn, pageOut,
                 contacts, storeDown>>

\* A call of get_db(), before init_db is called or once it has returned or
\* raised (nothing else runs while the startup awaits inside init_db)
GetDb ==
    /\ lifespan \notin {"init_ping", "init_indexes"}
    /\ Answer([op |-> "get_db"], get_db)
    /\ UNCHANGED <<users, nextToken, contents, nextOid, now, pageIn, pageOut, contacts,
                 storeDown, client, database, lifespan>>

InitLifecycle ==
    /\ users = InitUsers
    /\ nextToken = 0
    /\ contents = EmptyDict
    /\ nextOid = 0
    /\ now = 0
    /\ pageIn = EmptyDict
    /\ pageOut = EmptyDict
    /\ contacts = EmptyDict
    /\ storeDown = FALSE
    /\ client = None
    /\ database = None
    /\ lifespan = "startup"
    /\ InitRequests

NextLifecycle ==
    \/ InitDbConnect \/ InitDbConnectFails \/ InitDbPing \/ InitDbPingFails
    \/ InitIndexes \/ InitAdminUser \/ CloseDb \/ Restart
    \/ GetDb
    \/ LoginFind \/ LoginWrite \/ Me \/ LogoutAuth \/ LogoutWrite

SpecLifecycle == InitLifecycle /\ [][NextLifecycle]_vars

\* init_db has completed and close_db has not begun
HandleOpen == lifespan \in {"init_admin", "serving"}

\* The step is a call of get_db
GetDbStep ==
    /\ resp' # EmptyDict
    /\ resp'.request.op = "get_db"
    /\ inflight' = inflight
    /\ lifespan' = lifespan
    /\ users' = users

GetDbOnlyWhileOpen ==
    GetDbStep =>
        IF HandleOpen
        THEN resp'.response = Return(database)
        ELSE resp'.response.raised = "RuntimeError"

ServedOnlyWhileOpen == inflight # EmptyBag => HandleOpen

\* C21: a request is in service only between the completion of init_db and
\* the beginning of close_db, and a call of get_db outside that interval
\* (before init_db, after init_db has raised, after close_db) fails instead
\* of returning the handle.
C21_HandleLifecycle ==
    /\ []ServedOnlyWhileOpen
    /\ [][GetDbOnlyWhileOpen]_vars

(***************************************************************************)
(* Paged listing  (app/services/content.py: get_all_contents,              *)
(* get_contents_by_filter, get_contents_by_category;                       *)
(* app/services/contact.py: get_all_contacts)                              *)
(***************************************************************************)
MaxPaged == 3

\* The skips and limits a client sends
PagedSkips == {0, 1, 3}
PagedLimits == {1, 2}

\* The stores the listings are applied to: up to MaxPaged items with the
\* (pairwise distinct) dates 1..k, inserted in any order; the items of an odd
\* date are GST news, those of an even date MCA articles
PagedKind(date) ==
    IF date % 2 = 1 THEN [category |-> "gst", type |-> "news"]
    ELSE [category |-> "mca", type |-> "articles"]
PagedSeeds ==
    {s \in UNION {[1..k -> [date : 1..k]] : k \in 0..MaxPaged} :
        \A i, j \in DOMAIN s : i # j => s[i].date # s[j].date}
PagedContents(s) ==
    [i \in DOMAIN s |->
        ("_id" :> i) @@ SeedItem(PagedKind(s[i].date).category, PagedKind(s[i].date).type, s[i].date)]
PagedContacts(s) ==
    [i \in DOMAIN s |->
        ("_id" :> i) @@ ApplySet([name |-> "Asha", email |-> "asha@tax.in",
                                  message |-> "Please call me back."],
                                 [date |-> s[i].date, status |-> "new",
                                  created_at |-> s[i].date])]

\* GET /content/: ContentService.get_all_contents without a search text,
\* count_documents
ListAllCount ==
    /\ Idle
    /\ \E skip \in PagedSkips, limit \in PagedLimits :
         Await("list_find",
               [op |-> "list_all", skip |-> skip, limit |-> limit, q |-> None],
               [query |-> EmptyDict, total |-> count_documents(contents, EmptyDict)])
    /\ UNCHANGED <<users, nextToken, contents, nextOid, now, pageIn, pageOut, contacts,
                 storeDown, client, database, lifespan>>

\* GET /content/category/{category}: ContentService.get_contents_by_category,
\* count_documents
CategoryCount ==
    /\ Idle
    /\ \E category \in ListCategories, skip \in PagedSkips, limit \in PagedLimits :
         Await("list_find",
               [op |-> "list_by_category", category |-> category, skip |-> skip,
                limit |-> limit],
               [query |-> [category |-> category],
                total |-> count_documents(contents, [category |-> category])])
    /\ UNCHANGED <<users, nextToken, contents, nextOid, now, pageIn, pageOut, contacts,
                 storeDown, client, database, lifespan>>

\* GET /contact/: ContactService.get_all_contacts, count_documents
ContactListCount ==
    /\ Idle
    /\ \E skip \in PagedSkips, limit \in PagedLimits :
         Await("contact_list_find",
               [op |-> "list_contacts", skip |-> skip, limit |-> limit],
               [total |-> count_documents(contacts, EmptyDict)])
    /\ UNCHANGED <<users, nextToken, contents, nextOid, now, pageIn, pageOut, contacts,
                 storeDown, client, database, lifespan>>

\* ContactService.get_all_contacts: the cursor is read, the items are
\* formatted and the list response is returned
ContactListFind ==
    \E h \in InFlight :
        /\ h.pc = "contact_list_find"
        /\ \E docs \in FindSorted(contacts, EmptyDict, h.req.skip, h.req.limit) :
             Respond(h, Return(create_list_response(
                                  [i \in DOMAIN docs |-> format_contact_response(docs[i])],
                                  h.loc.total, h.req.skip, h.req.limit)))
        /\ UNCHANGED <<users, nextToken, contents, nextOid, now, pageIn, pageOut, contacts,
                     storeDown, client, database, lifespan>>

InitPaging ==
    /\ users = SessionUsers
    /\ nextToken = 2
    /\ \E s \in PagedSeeds :
         /\ contents = PagedContents(s)
         /\ contacts = PagedContacts(s)
    /\ nextOid = Len(contents)
    /\ now = MaxPaged
    /\ pageIn = EmptyDict
    /\ pageOut = EmptyDict
    /\ storeDown = FALSE
    /\ Serving
    /\ InitRequests

NextPaging ==
    \/ ListAllCount \/ CategoryCount \/ ListCount \/ ListFind
    \/ ContactListCount \/ ContactListFind

SpecPaging == InitPaging /\ [][NextPaging]_vars

\* The collection a list request reads and the documents of it that match
ListedFrom(request) == IF request.op = "list_contacts" THEN contacts ELSE contents

ListMatching(request) ==
    {i \in DOMAIN ListedFrom(request) :
        /\ request.op \in {"list_by_category", "list_by_filter"} =>
             ListedFrom(request)[i].category = request.category
        /\ request.op = "list_by_filter" => ListedFrom(request)[i].type = request.type}

\* The matching document with pos - 1 matching documents of a later date
Ranked(request, pos) ==
    LET coll == ListedFrom(request)
    IN  CHOOSE i \in ListMatching(request) :
            Cardinality({j \in ListMatching(request) : coll[j].date > coll[i].date}) = pos - 1

\* What a list request returned: the envelope
Envelope(response) == IF "body" \in DOMAIN response THEN response.body ELSE response.value

\* C24: on a static store whose matching documents have pairwise distinct
\* dates, a list operation called with skip >= 0 and limit in [1, 100] and no
\* search text returns as items the documents at positions skip + 1 ..
\* skip + limit of the matching documents in descending order of date,
\* min(limit, max(0, total - skip)) of them, and as total the number of
\* matching documents.
C24_WindowOfSortedMatches ==
    (/\ resp # EmptyDict
     /\ resp.request.op \in {"list_all", "list_by_category", "list_by_filter", "list_contacts"}
     /\ ("q" \in DOMAIN resp.request => resp.request.q = None)
     /\ resp.request.skip >= 0 /\ resp.request.limit \in 1..100
     /\ \A i, j \in ListMatching(resp.request) :
            i # j => ListedFrom(resp.request)[i].date # ListedFrom(resp.request)[j].date)
    => LET request == resp.request
           total == Cardinality(ListMatching(request))
           items == Envelope(resp.response).items
       IN  /\ Envelope(resp.response).total = total
           /\ Len(items) = min(request.limit, max(0, total - request.skip))
           /\ \A k \in 1..Len(items) :
                items[k] = format_content_response(
                               ListedFrom(request)[Ranked(request, request.skip + k)])

\* A list of all contents returned the second and the third of three items
\* that were not inserted in the order of their dates
C24_Witness ==
    /\ resp # EmptyDict
    /\ resp.request.op = "list_all"
    /\ resp.request.skip = 1 /\ resp.request.limit = 2
    /\ Cardinality(DOMAIN contents) = 3
    /\ contents[1].date > contents[2].date
    /\ Len(resp.response.body.items) = 2
    /\ resp.response.body.items[1].date > resp.response.body.items[2].date
    /\ resp.response.body.total = 3

(***************************************************************************)
(* Routing  (app/api/contact.py, app/api/content.py: the route tables)     *)
(***************************************************************************)
\* A segment of a route's path: a literal or a path parameter
Lit(text) == [literal |-> text]
Param(name) == [param |-> name]

\* The routes of the contact router, in the order of their declaration
ContactRoutes ==
    << [methods |-> {"POST"}, path |-> <<>>, endpoint |-> "create_contact"],
       [methods |-> {"GET"}, path |-> <<>>, endpoint |-> "get_all_contacts"],
       [methods |-> {"GET"}, path |-> <<Param("id")>>, endpoint |-> "get_contact_by_id"],
       [methods |-> {"GET"}, path |-> <<Lit("count")>>, endpoint |-> "get_contact_count"] >>

\* The routes of the content router, in the order of their declaration
ContentRoutes ==
    << [methods |-> {"GET", "OPTIONS"}, path |-> <<>>, endpoint |-> "get_all_contents"],
       [methods |-> {"GET"}, path |-> <<Lit("item"), Param("id")>>,
        endpoint |-> "get_content_by_id"],
       [methods |-> {"GET", "OPTIONS"}, path |-> <<Param("category"), Param("type")>>,
        endpoint |-> "get_contents_by_filter"],
       [methods |-> {"GET"}, path |-> <<Lit("category"), Param("category")>>,
        endpoint |-> "get_contents_by_category"],
       [methods |-> {"POST"}, path |-> <<>>, endpoint |-> "create_content"],
       [methods |-> {"PUT"}, path |-> <<Param("id")>>, endpoint |-> "update_content"],
       [methods |-> {"DELETE"}, path |-> <<Param("id")>>, endpoint |-> "delete_content"] >>

\* A route's path matches a request path, given as its segments after the
\* router's prefix: as many segments, each literal equal, each parameter
\* taking one segment
PathMatches(route, path) ==
    /\ Len(route.path) = Len(path)
    /\ \A i \in 1..Len(path) :
         "literal" \in DOMAIN route.path[i] => route.path[i].literal = path[i]

\* The path parameters a matching route takes from the path
PathParams(route, path) ==
    LET at == {i \in 1..Len(path) : "param" \in DOMAIN route.path[i]}
    IN  [name \in {route.path[i].param : i \in at} |->
            path[CHOOSE i \in at : route.path[i].param = name]]

\* The router takes the first route whose path and method match; with none,
\* the first whose path matches answers 405, and with none of those 404
Dispatch(routes, method, path) ==
    LET full == {i \in 1..Len(routes) :
                    PathMatches(routes[i], path) /\ method \in routes[i].methods}
        partial == {i \in 1..Len(routes) : PathMatches(routes[i], path)}
        first(set) == CHOOSE i \in set : \A j \in set : i <= j
    IN  IF full # {}
        THEN [endpoint |-> routes[first(full)].endpoint,
              params |-> PathParams(routes[first(full)], path)]
        ELSE IF partial # {}
        THEN [endpoint |-> "405", params |-> EmptyDict]
        ELSE [endpoint |-> "404", params |-> EmptyDict]

\* ContactService.get_contact_by_id
get_contact_by_id(coll, id) ==
    LET check == ContactIdCheck(id, "Failed to fetch contact: ")
    IN  IF check # EmptyDict
        THEN check
        ELSE IF FindById(coll, ObjectId(id)) = NoDoc
        THEN RaiseWith("ContactNotFoundException", "Contact not found with ID: " \o id)
        ELSE Return(format_contact_response(FindById(coll, ObjectId(id))))

\* ContactCountResponse(count=stats["total"], new_count=stats["new"], ...)
ContactCountResponse(stats) ==
    [count |-> stats.total, new_count |-> stats.new, reviewed_count |-> stats.reviewed,
     replied_count |-> stats.replied, archived_count |-> stats.archived]

\* The paths a client requests under /contact and under /content
ContactPaths == {<<>>, <<"count">>, <<"count", "new">>} \cup {<<id>> : id \in IdInputs(1)}
ContentPaths ==
    {<<>>, <<"gst">>} \cup {<<"item", id>> : id \in IdInputs(1)}
    \cup {<<category, type>> : category \in ListCategories, type \in ListTypes}
    \cup {<<"category", category>> : category \in ListCategories}

\* The answer of the framework when no route takes the request
Unrouted(endpoint) ==
    IF endpoint = "405" THEN HttpError(405, "Method Not Allowed")
    ELSE HttpError(404, "Not Found")

\* GET under /contact: the router picks the route, and the route's function
\* runs up to its first answer from the store
ContactGet ==
    /\ Idle
    /\ \E path \in ContactPaths :
         LET route == Dispatch(ContactRoutes, "GET", path)
             request == [op |-> route.endpoint, method |-> "GET", router |-> "contact",
                         path |-> path] @@ route.params
         IN  CASE route.endpoint = "get_all_contacts" ->
                    Await("contact_list_find", request @@ [skip |-> 0, limit |-> 10],
                          [total |-> count_documents(contacts, EmptyDict)])
               [] route.endpoint = "get_contact_by_id" ->
                    Answer(request, get_contact_by_id(contacts, route.params.id))
               [] route.endpoint = "get_contact_count" ->
                    Await("stats_new", request,
                          [total |-> count_documents(contacts, EmptyDict)])
               [] OTHER -> Answer(request, Unrouted(route.endpoint))
    /\ UNCHANGED <<users, nextToken, contents, nextOid, now, pageIn, pageOut, contacts,
                 storeDown, client, database, lifespan>>

\* GET under /content: the router picks the route, and the route's function
\* runs up to its first answer from the store
ContentGet ==
    /\ Idle
    /\ \E path \in ContentPaths :
         LET route == Dispatch(ContentRoutes, "GET", path)
             request == [op |-> route.endpoint, method |-> "GET", router |-> "content",
                         path |-> path] @@ route.params
             paged == request @@ [skip |-> 0, limit |-> 10]
         IN  CASE route.endpoint = "get_all_contents" ->
                    Await("list_find", paged @@ [q |-> None],
                          [query |-> EmptyDict,
                           total |-> count_documents(contents, EmptyDict)])
               [] route.endpoint = "get_content_by_id" ->
                    Answer(request, get_content_by_id(contents, route.params.id))
               [] route.endpoint = "get_contents_by_filter" ->
                    Await("list_find", paged @@ [q |-> None],
                          [query |-> FilterQuery(route.params.category, route.params.type),
                           total |-> count_documents(contents,
                                        FilterQuery(route.params.category,
                                                    route.params.type))])
               [] route.endpoint = "get_contents_by_category" ->
                    Await("list_find", paged,
                          [query |-> [category |-> route.params.category],
                           total |-> count_documents(contents,
                                        [category |-> route.params.category])])
               [] OTHER -> Answer(request, Unrouted(route.endpoint))
    /\ UNCHANGED <<users, nextToken, contents, nextOid, now, pageIn, pageOut, contacts,
                 storeDown, client, database, lifespan>>

InitRoute == InitPaging

\* The steps that follow the routes the router reaches
NextRoute ==
    \/ ContactGet \/ ContactListFind
    \/ ContentGet \/ ListFind

SpecRoute == InitRoute /\ [][NextRoute]_vars

\* C25: GET /contact/count is handled by get_contact_count and answers with
\* the five counts count, new_count, reviewed_count, replied_count and
\* archived_count; the route /contact/{id} does not take it.
C25_CountRouteReached ==
    (/\ resp # EmptyDict
     /\ "router" \in DOMAIN resp.request
     /\ resp.request.router = "contact"
     /\ resp.request.path = <<"count">>)
    => /\ resp.request.op = "get_contact_count"
       /\ resp.response.raised = ""
       /\ DOMAIN ContactCountResponse(resp.response.value)
            = {"count", "new_count", "reviewed_count", "replied_count", "archived_count"}

\* C26: GET /content/category/{category} is handled by
\* get_contents_by_category and answers with the items of that category
\* whatever their type; the route /content/{category}/{type} does not take it.
C26_CategoryRouteReached ==
    (/\ resp # EmptyDict
     /\ "router" \in DOMAIN resp.request
     /\ resp.request.router = "content"
     /\ Len(resp.request.path) = 2
     /\ resp.request.path[1] = "category")
    => /\ resp.request.op = "get_contents_by_category"
       /\ resp.response.status = 200
       /\ resp.response.body.total
            = Cardinality({i \in DOMAIN contents :
                              contents[i].category = resp.request.path[2]})

(***************************************************************************)
(* Token revocation and failed logins  (app/api/auth.py: login, logout;    *)
(* app/core/admin_init.py: init_admin_user)                                *)
(***************************************************************************)
\* The step makes the token drawn n-th, which resolved to user u, resolve to
\* u no more
Revoked(n, u) == ResolvesTo(users, n, u) /\ ~ResolvesTo(users', n, u)

\* The step is the write of a logout that presented the token drawn n-th
OwnLogoutWrites(n) ==
    \E h \in InFlight :
        /\ h.pc = "logout_write"
        /\ Returned(h)
        /\ h.req.authorization = Bearer(token_urlsafe(n))

\* The step is the write of a successful login of user u
LoginWrites(u) ==
    \E h \in InFlight :
        /\ h.pc = "login_write"
        /\ Returned(h)
        /\ h.loc.user["_id"] = u

\* C27: a token returned by a login of user U resolves to U until a logout
\* that presented that token, or a later login of U, writes to U's record; no
\* other step revokes it: not the write of a logout that presented an older
\* token of U, and not the administrator's re-initialization at startup.
C27_RevokedOnlyByOwnLogoutOrLogin ==
    [][\A n \in 1..nextToken, u \in DOMAIN users :
          Revoked(n, u) => (OwnLogoutWrites(n) \/ LoginWrites(u))]_vars

\* The step is the answer of a login that failed with 401
FailedLogin ==
    /\ inflight' = inflight
    /\ resp' # EmptyDict
    /\ resp'.request.op = "login"
    /\ resp'.response.status = 401

\* C28: a login that fails with 401 (unknown email or digest mismatch) writes
\* nothing: the users collection is unchanged, a token issued before to the
\* user of that email still resolves to that user, and the user's last_login
\* keeps its value.
C28_FailedLoginWritesNothing ==
    [][FailedLogin =>
         /\ users' = users
         /\ \A u \in FindOne(users, [email |-> resp'.request.email]) :
              /\ \A n \in 1..nextToken : ResolvesTo(users, n, u) => ResolvesTo(users', n, u)
              /\ ("last_login" \in DOMAIN users'[u]) = ("last_login" \in DOMAIN users[u])
              /\ "last_login" \in DOMAIN users[u] =>
                    users'[u]["last_login"] = users[u]["last_login"]]_vars

\* A login with a wrong password has just failed for a user who holds a
\* token from an earlier login: the token resolves to that user
C28_Witness ==
    /\ LastIs("login", 401)
    /\ inflight = EmptyBag
    /\ \E u \in FindOne(users, [email |-> resp.request.email]) :
         /\ users[u]["password"] # hash_password(resp.request.password)
         /\ "last_login" \in DOMAIN users[u]
         /\ \E n \in 1..nextToken : ResolvesTo(users, n, u)

(***************************************************************************)
(* Statistics while contacts are created  (app/services/contact.py:        *)
(* get_contact_stats, create_contact)                                      *)
(***************************************************************************)
MaxTallied == 2

\* A get_contact_stats is suspended between two of its counts
Counting == \E h \in InFlight : h.req.op = "stats"

\* ContactService.create_contact, called while a get_contact_stats is
\* suspended: the metadata and insert_one
ContactCreateWhileCounting ==
    /\ Counting
    /\ BagCardinality(inflight) < MaxInFlight
    /\ nextOid < MaxTallied
    /\ \E contact_data \in Submissions :
         /\ contacts' = InsertOne(contacts, nextOid + 1,
                                  ApplySet(contact_data,
                                           [date |-> now, status |-> "new",
                                            created_at |-> now]))
         /\ nextOid' = nextOid + 1
         /\ Await("contact_reread", [op |-> "create_contact", contact |-> contact_data],
                  [inserted_id |-> nextOid + 1])
    /\ UNCHANGED <<users, nextToken, contents, now, pageIn, pageOut, storeDown, client,
                 database, lifespan>>

\* The collection holds one contact as create_contact stores it
InitTally ==
    /\ users = SessionUsers
    /\ nextToken = 2
    /\ contents = EmptyDict
    /\ contacts = InsertOne(EmptyDict, 1,
                            ApplySet([name |-> "Asha", email |-> "asha@tax.in",
                                      message |-> "Please call me back."],
                                     [date |-> 0, status |-> "new", created_at |-> 0]))
    /\ nextOid = 1
    /\ now = 0
    /\ pageIn = EmptyDict
    /\ pageOut = EmptyDict
    /\ storeDown = FALSE
    /\ Serving
    /\ InitRequests

\* Status updates run while no statistics are being counted; creations run
\* while they are
NextTally ==
    \/ StatusFind \/ StatusWrite \/ StatusReread
    \/ StatsTotal \/ StatsNew \/ StatsReviewed \/ StatsReplied \/ StatsArchived
    \/ ContactCreateWhileCounting \/ ContactReread

SpecTally == InitTally /\ [][NextTally]_vars

\* C29: when the only writes that run while get_contact_stats counts are
\* contact creations, the counts it returns satisfy
\* total <= new + reviewed + replied + archived, and total is at least the
\* number of contacts counted when it started.
C29_TotalNeverOvercounts ==
    [][\A h \in InFlight :
          (h.pc = "stats_archived" /\ Returned(h) /\ resp'.response.raised = "") =>
              LET stats == resp'.response.value
              IN  /\ stats.total <= stats.new + stats.reviewed + stats.replied + stats.archived
                  /\ stats.total >= h.loc.total]_vars

====
